---- MODULE Spec2Model ----
(***************************************************************************)
(* rsync-docker: the transfer orchestrator (SyncManager.run_rsync), its    *)
(* disk-space gate, its retry loop and its classifier of rsync output      *)
(* (SyncManager._parse_rsync_output).                                      *)
(*                                                                         *)
(* Text is modelled as Python sees it: a string is a sequence of           *)
(* one-character strings, an output is the sequence of its lines (the text *)
(* between the newline characters).                                        *)
(***************************************************************************)
EXTENDS Integers, Sequences, FiniteSets, TLC

\* ------------------------------------------------------------------ bounds
\* Longest classifier input, in lines.
MaxLines == 3
\* Largest RSYNC_MAX_RETRIES explored.
MaxRetries == 3
\* Largest RSYNC_RETRY_DELAY explored (seconds).
MaxDelay == 2
\* Largest DISK_SPACE_THRESHOLD_GB explored.
MaxThresholdGB == 2
\* Largest free space measured, in units of 1/UnitsPerGB GB.
MaxFreeUnits == 5
\* Granularity of the measured free space: units per GB (1024**3 bytes in the code).
UnitsPerGB == 2
\* Largest FOLDER_LIST_THRESHOLD explored.
MaxFolderThreshold == 1
MaxSetCalls == 1
MaxPathLen == 4
MaxManualInterval == 7
MaxUpdates == 2
MaxRuns == 2
MaxCronLines == 2
MaxCronCalls == 2
MaxSyncCalls == 2

\* ------------------------------------------------------- characters, text
Lower == {"a","b","c","d","e","f","g","h","i","j","k","l","m","n","o","p","q","r","s","t","u","v","w","x","y","z"}
Upper == {"A","B","C","D","E","F","G","H","I","J","K","L","M","N","O","P","Q","R","S","T","U","V","W","X","Y","Z"}
Digits == {"0","1","2","3","4","5","6","7","8","9"}

\* str.strip() and the regex class \s.
Whitespace == {" ", "\t", "\n", "\r"}

\* item_regex, group flags: [.cd+*<>]
FlagChars == {".", "c", "d", "+", "*", "<", ">"}

\* item_regex, group perm_flags: [a-zA-Z0-9.\-+\/\\]
PermChars == Lower \cup Upper \cup Digits \cup {".", "-", "+", "/", "\\"}

\* The statistics regexes' class [\d\.,]
NumChars == Digits \cup {".", ","}

DATA_DIR == <<"/","d","a","t","a">>

LblBytesSent == <<"T","o","t","a","l"," ","b","y","t","e","s"," ","s","e","n","t",":">>
LblBytesReceived == <<"T","o","t","a","l"," ","b","y","t","e","s"," ","r","e","c","e","i","v","e","d",":">>
LblTotalSize == <<"t","o","t","a","l"," ","s","i","z","e"," ","i","s">>
LblSpeedup == <<"s","p","e","e","d","u","p"," ","i","s">>
LblBytesSec == <<"b","y","t","e","s","/","s","e","c">>
LblCreated == <<"N","u","m","b","e","r"," ","o","f"," ","c","r","e","a","t","e","d"," ","f","i","l","e","s",":">>
LblDeleted == <<"N","u","m","b","e","r"," ","o","f"," ","d","e","l","e","t","e","d"," ","f","i","l","e","s",":">>

\* s[i..] starts with pat
IsPrefixAt(pat, s, i) ==
    /\ i + Len(pat) - 1 <= Len(s)
    /\ \A k \in 1..Len(pat) : s[i + k - 1] = pat[k]

\* Python: pat in s
Contains(s, pat) == \E i \in 1..(Len(s) + 1) : IsPrefixAt(pat, s, i)

\* Python: s.startswith(pat)
StartsWith(s, pat) == IsPrefixAt(pat, s, 1)

\* Index of the first character of s at or after i that is not in class, Len(s)+1 if none.
SkipClass(s, i, class) ==
    IF \E j \in i..Len(s) : s[j] \notin class
    THEN CHOOSE j \in i..Len(s) : s[j] \notin class /\ \A k \in i..(j - 1) : s[k] \in class
    ELSE Len(s) + 1

\* Index of the last character of s that is not in class, 0 if none.
LastNotIn(s, class) ==
    IF \E j \in 1..Len(s) : s[j] \notin class
    THEN CHOOSE j \in 1..Len(s) : s[j] \notin class /\ \A k \in (j + 1)..Len(s) : s[k] \in class
    ELSE 0

\* Python: s.strip()
Strip(s) == SubSeq(s, SkipClass(s, 1, Whitespace), LastNotIn(s, Whitespace))

\* Python: s.rstrip('/')
RStripSlash(s) == SubSeq(s, 1, LastNotIn(s, {"/"}))

\* Python: s.replace(old, '') for a single character old
RECURSIVE RemoveChar(_, _)
RemoveChar(s, c) ==
    IF s = <<>> THEN <<>>
    ELSE IF Head(s) = c THEN RemoveChar(Tail(s), c)
    ELSE <<Head(s)>> \o RemoveChar(Tail(s), c)

DigitValue(c) ==
    CASE c = "0" -> 0 [] c = "1" -> 1 [] c = "2" -> 2 [] c = "3" -> 3 [] c = "4" -> 4
      [] c = "5" -> 5 [] c = "6" -> 6 [] c = "7" -> 7 [] c = "8" -> 8 [] c = "9" -> 9

\* Python: int(s) for a non-empty string of decimal digits
RECURSIVE DigitsToInt(_)
DigitsToInt(s) ==
    IF Len(s) = 1 THEN DigitValue(s[1])
    ELSE 10 * DigitsToInt(SubSeq(s, 1, Len(s) - 1)) + DigitValue(s[Len(s)])

\* int(x) / float(x) raise ValueError on the empty string
IntRaises(s) == s = <<>>

\* Python: os.path.join(DATA_DIR, path)
PathJoinDataDir(path) ==
    IF StartsWith(path, <<"/">>) THEN path ELSE DATA_DIR \o <<"/">> \o path

\* Python: rsync_output.strip().split('\n'), the output given as its lines
StripSplit(output) ==
    LET nonblank == {i \in 1..Len(output) : \E j \in 1..Len(output[i]) : output[i][j] \notin Whitespace}
    IN  IF nonblank = {} THEN << <<>> >>
        ELSE LET a == CHOOSE i \in nonblank : \A k \in nonblank : i <= k
                 b == CHOOSE i \in nonblank : \A k \in nonblank : k <= i
             IN  [i \in 1..(b - a + 1) |->
                    LET l == output[a + i - 1]
                        from == IF i = 1 THEN SkipClass(l, 1, Whitespace) ELSE 1
                        to == IF a + i - 1 = b THEN LastNotIn(l, Whitespace) ELSE Len(l)
                    IN  SubSeq(l, from, to)]

\* ---------------------------------------------- SyncManager._parse_rsync_output
\* item_regex.match(line): one flags character, eight perm_flags characters,
\* whitespace, a non-empty path up to the end of the line.
ItemMatch(line) ==
    /\ Len(line) >= 11
    /\ line[1] \in FlagChars
    /\ \A i \in 2..9 : line[i] \in PermChars
    /\ line[10] \in Whitespace

\* match.group('flags')
ItemFlags(line) == SubSeq(line, 1, 1)

\* match.group('path').strip(): the greedy \s+ leaves the path at the first
\* non-blank character (or at one blank when only blanks follow).
ItemPath(line) == Strip(SubSeq(line, 10, Len(line)))

\* The group of re.search(label \s* (class+), line): the leftmost occurrence of
\* the label that blanks and then a character of the class follow; <<>> when
\* there is no match.
SearchAfterLabel(line, label, class) ==
    LET hits == {i \in 1..Len(line) :
                    /\ IsPrefixAt(label, line, i)
                    /\ SkipClass(line, i + Len(label), Whitespace) <= Len(line)
                    /\ line[SkipClass(line, i + Len(label), Whitespace)] \in class}
    IN  IF hits = {} THEN <<>>
        ELSE LET i == CHOOSE h \in hits : \A k \in hits : h <= k
                 from == SkipClass(line, i + Len(label), Whitespace)
             IN  SubSeq(line, from, SkipClass(line, from, class) - 1)

\* The group of re.search(r'([\d\.,]+)\s*bytes/sec', line): the leftmost run of
\* number characters that blanks and then bytes/sec follow; <<>> when there is
\* no match.
SearchSpeed(line) ==
    LET hits == {i \in 1..Len(line) :
                    /\ line[i] \in NumChars
                    /\ IsPrefixAt(LblBytesSec, line,
                          SkipClass(line, SkipClass(line, i, NumChars), Whitespace))}
    IN  IF hits = {} THEN <<>>
        ELSE LET i == CHOOSE h \in hits : \A k \in hits : h <= k
             IN  SubSeq(line, i, SkipClass(line, i, NumChars) - 1)

\* text.replace('.', '').replace(',', '')
StripSeparators(text) == RemoveChar(RemoveChar(text, "."), ",")

\* Code points order the characters, as Python's sorted() compares strings.
CodeOrder ==
    <<"\t"," ","*","+",",","-",".","/","0","1","2","3","4","5","6","7","8","9",":","<",">",
      "A","B","C","D","E","F","G","H","I","J","K","L","M","N","O","P","Q","R","S","T","U","V","W","X","Y","Z","\\",
      "a","b","c","d","e","f","g","h","i","j","k","l","m","n","o","p","q","r","s","t","u","v","w","x","y","z">>

CodePoint(c) == CHOOSE i \in 1..Len(CodeOrder) : CodeOrder[i] = c

\* Python: a < b on strings
StrLess(a, b) ==
    \/ Len(a) < Len(b) /\ SubSeq(b, 1, Len(a)) = a
    \/ \E i \in 1..Len(a) :
          /\ i <= Len(b)
          /\ SubSeq(a, 1, i - 1) = SubSeq(b, 1, i - 1)
          /\ CodePoint(a[i]) < CodePoint(b[i])

\* Python: sorted(list(S)) for a set of strings
RECURSIVE Sorted(_)
Sorted(S) ==
    IF S = {} THEN <<>>
    ELSE LET m == CHOOSE x \in S : \A y \in S \ {x} : StrLess(x, y)
         IN  <<m>> \o Sorted(S \ {m})

\* stats and the two sets, before the first line
InitialStats ==
    [sent_bytes |-> 0, received_bytes |-> 0, total_size |-> 0, speed_bps |-> 0,
     new_files |-> 0, modified_files |-> 0, deleted_files |-> 0,
     new_folders |-> 0, modified_folders |-> 0,
     new_folder_names |-> <<>>, modified_folder_names |-> <<>>,
     unique_new_folders |-> {}, unique_modified_folders |-> {},
     raised |-> FALSE]

\* The itemized half of the loop body (item_regex and the flag tests).
ClassifyItem(st, line) ==
    IF ~ItemMatch(line) THEN st
    ELSE LET flags == ItemFlags(line)
             path == ItemPath(line)
             is_directory_by_flag == Contains(flags, <<"d">>)
             full_path_in_dest == RStripSlash(PathJoinDataDir(path))
         IN  IF is_directory_by_flag
             THEN IF StartsWith(flags, <<"c">>)
                  THEN [st EXCEPT !.unique_new_folders = @ \cup {full_path_in_dest}]
                  ELSE IF \/ Contains(flags, <<"t">>)
                          \/ Contains(flags, <<"s">>)
                          \/ (Contains(flags, <<"+">>) /\ ~StartsWith(flags, <<"c">>))
                  THEN [st EXCEPT !.unique_modified_folders = @ \cup {full_path_in_dest}]
                  ELSE st
             ELSE IF StartsWith(flags, <<"<">>) \/ StartsWith(flags, <<"c">>)
                  THEN [st EXCEPT !.new_files = @ + 1]
                  ELSE IF Contains(flags, <<"t">>) \/ Contains(flags, <<"s">>)
                  THEN [st EXCEPT !.modified_files = @ + 1]
                  ELSE IF StartsWith(flags, <<"*">>)
                  THEN [st EXCEPT !.deleted_files = @ + 1]
                  ELSE st

\* One byte counter: int(match.group(1).replace('.', '').replace(',', '')),
\* the field left alone when the regex does not match, ValueError when no
\* digit is left.
SetNumber(st, field, group) ==
    IF group = <<>> THEN st
    ELSE IF IntRaises(StripSeparators(group)) THEN [st EXCEPT !.raised = TRUE]
    ELSE [st EXCEPT ![field] = DigitsToInt(StripSeparators(group))]

\* The statistics half of the loop body (the if/elif chain on the labels).
ClassifyStats(st, line) ==
    IF Contains(line, LblBytesSent)
    THEN SetNumber(st, "sent_bytes", SearchAfterLabel(line, LblBytesSent, NumChars))
    ELSE IF Contains(line, LblBytesReceived)
    THEN SetNumber(st, "received_bytes", SearchAfterLabel(line, LblBytesReceived, NumChars))
    ELSE IF Contains(line, LblTotalSize) /\ Contains(line, LblSpeedup)
    THEN LET sized == SetNumber(st, "total_size", SearchAfterLabel(line, LblTotalSize, NumChars))
         IN  IF sized.raised THEN sized
             ELSE SetNumber(sized, "speed_bps", SearchSpeed(line))
    ELSE IF Contains(line, LblCreated)
    THEN SetNumber(st, "new_files", SearchAfterLabel(line, LblCreated, Digits))
    ELSE IF Contains(line, LblDeleted)
    THEN SetNumber(st, "deleted_files", SearchAfterLabel(line, LblDeleted, Digits))
    ELSE st

\* The body of `for line in output_lines`; an exception ends the loop.
ClassifyLine(st, line) ==
    IF st.raised THEN st ELSE ClassifyStats(ClassifyItem(st, line), line)

RECURSIVE ClassifyLines(_, _)
ClassifyLines(st, lines) ==
    IF lines = <<>> THEN st
    ELSE ClassifyLines(ClassifyLine(st, Head(lines)), Tail(lines))

\* SyncManager._parse_rsync_output: the stats dictionary, or raised = TRUE
\* when a conversion raised ValueError.
ParseRsyncOutput(rsync_output) ==
    LET st == ClassifyLines(InitialStats, StripSplit(rsync_output))
    IN  IF st.raised THEN st
        ELSE [st EXCEPT !.new_folder_names = Sorted(st.unique_new_folders),
                        !.modified_folder_names = Sorted(st.unique_modified_folders),
                        !.new_folders = Cardinality(st.unique_new_folders),
                        !.modified_folders = Cardinality(st.unique_modified_folders)]

\* default_interval = 30
DefaultInterval == 30

\* subprocess.run(cmd, capture_output=True, text=True, timeout=300)
TransferTimeout == 300

\* result.stdout[:500], result.stderr[:500]
ExcerptLimit == 500

\* ------------------------------------------ sync_utils.parse_rsync_output
\* re.findall(r"\d+", line): the first run of digits of the line, <<>> when the
\* line holds no digit (the [0] then raises IndexError).
FirstDigitRun(line) ==
    IF \E i \in 1..Len(line) : line[i] \in Digits
    THEN LET first == CHOOSE i \in 1..Len(line) :
                         line[i] \in Digits /\ \A k \in 1..(i - 1) : line[k] \notin Digits
         IN  SubSeq(line, first, SkipClass(line, first, Digits) - 1)
    ELSE <<>>

\* int(re.findall(r"\d+", line)[0])
FirstDigitRunValue(line) == DigitsToInt(FirstDigitRun(line))

\* stats[field] = int(re.findall(r"\d+", line)[0])
SetFirstNumber(st, field, line) ==
    IF FirstDigitRun(line) = <<>> THEN [st EXCEPT !.raised = TRUE]
    ELSE [st EXCEPT ![field] = FirstDigitRunValue(line)]

\* The body of `for line in output.splitlines()`; an exception ends the loop.
BasicLine(st, line) ==
    IF st.raised THEN st
    ELSE IF Contains(line, LblBytesSent) THEN SetFirstNumber(st, "sent_bytes", line)
    ELSE IF Contains(line, LblBytesReceived) THEN SetFirstNumber(st, "received_bytes", line)
    ELSE IF Contains(line, LblTotalSize) THEN SetFirstNumber(st, "total_size", line)
    ELSE st

RECURSIVE BasicLines(_, _)
BasicLines(st, lines) ==
    IF lines = <<>> THEN st ELSE BasicLines(BasicLine(st, Head(lines)), Tail(lines))

\* sync_utils.parse_rsync_output: the three byte counters, or raised = TRUE
\* when a labelled line holds no digit.
parse_rsync_output(output) ==
    BasicLines([sent_bytes |-> 0, received_bytes |-> 0, total_size |-> 0, raised |-> FALSE],
               IF output = << <<>> >> THEN <<>> ELSE output)

\* ----------------------------------------------------------- sample inputs
\* Itemized lines in the 9-letter form (YXcstpog.) and in rsync 3's 11-letter
\* form (YXcstpoguax), and statistics lines.
LineSentFile == <<"<","f","+","+","+","+","+","+","+"," ","a">>
LineReceivedFile == <<">","f","+","+","+","+","+","+","+"," ","a">>
LineCreatedDir == <<"c","d","+","+","+","+","+","+","+"," ","d","/">>
LineTouchedDir == <<".","d",".",".","t",".",".",".","."," ","d","/">>
LineCreatedDir11 == <<"c","d","+","+","+","+","+","+","+","+","+"," ","d","/">>
LineDeleting == <<"*","d","e","l","e","t","i","n","g"," "," "," ","a">>
LineCreated7 == <<"N","u","m","b","e","r"," ","o","f"," ","c","r","e","a","t","e","d"," ","f","i","l","e","s",":"," ","7">>
LineTouchedFile == <<".","f",".",".","t",".",".",".","."," ","a">>
LineSent1234567 == <<"T","o","t","a","l"," ","b","y","t","e","s"," ","s","e","n","t",":"," ","1",",","2","3","4",",","5","6","7">>
LineTotalSize1234 == <<"t","o","t","a","l"," ","s","i","z","e"," ","i","s"," ","1",",","2","3","4"," "," ","s","p","e","e","d","u","p"," ","i","s"," ","1",".","0","0">>
LineSentBad == <<"T","o","t","a","l"," ","b","y","t","e","s"," ","s","e","n","t",":"," ",",">>
LineReceived12 == <<"T","o","t","a","l"," ","b","y","t","e","s"," ","r","e","c","e","i","v","e","d",":"," ","1","2">>

\* The lines the classifier is fed in the checks of the classifier alone.
SampleLines ==
    {LineSentFile, LineReceivedFile, LineCreatedDir, LineTouchedDir, LineCreatedDir11,
     LineDeleting, LineCreated7, LineSentBad, LineTouchedFile, LineSent1234567,
     LineTotalSize1234}

\* Every output of 1..MaxLines sample lines.
ClassifierInputs == UNION {[1..n -> SampleLines] : n \in 1..MaxLines}

\* result.stdout of a transfer attempt in the checks of a run.
SampleOutputs ==
    { << <<>> >>,
      <<LineCreatedDir, LineSentFile, LineSentFile>>,
      <<LineCreated7, LineReceived12>>,
      <<LineSentBad>> }

\* ------------------------------------------------------------------ state
VARIABLES
    max_retries,              \* self.max_retries
    retry_delay_seconds,      \* self.retry_delay_seconds
    disk_space_threshold_gb,  \* self.disk_space_threshold_gb
    FOLDER_LIST_THRESHOLD,    \* self.FOLDER_LIST_THRESHOLD
    rsync_from,               \* self.rsync_from
    pc,                       \* where run_rsync (or the classifier alone) stands
    direction,                \* run_rsync's argument
    src,                      \* run_rsync's local src
    disk,                     \* what _check_disk_space measured and answered
    cmd,                      \* the rsync command line, once built
    attempt,                  \* the loop variable of the retry loop
    attempts,                 \* the subprocess.run calls made, in order
    sleeps,                   \* the time.sleep calls made, in order (seconds)
    notifications,            \* the send_telegram calls made, in order
    classified,               \* the attempts whose stdout went to _parse_rsync_output
    rsync_output,             \* the text last given to _parse_rsync_output
    parsed_stats,             \* what _parse_rsync_output returned for it
    basic_stats,              \* what sync_utils.parse_rsync_output returned for it
    last_result,              \* run_rsync's local result (or the exception caught)
    config_file,              \* the file RSYNC_FROM_CONFIG_FILE
    set_result,               \* the last set_rsync_from_path call and how it ended
    set_count                 \* the set_rsync_from_path calls made

managerVars ==
    <<max_retries, retry_delay_seconds, disk_space_threshold_gb, FOLDER_LIST_THRESHOLD,
      rsync_from, pc, direction, src, disk, cmd, attempt, attempts, sleeps,
      notifications, classified, rsync_output, parsed_stats, basic_stats, last_result,
      config_file, set_result, set_count>>

\* The state of the service around one SyncManager.
VARIABLES
    validated,                \* a path and the answers of the three checks of its shape
    writer,                   \* a _save_rsync_from_path call of the bot's SyncManager
    ctor,                     \* a perform_sync call: the SyncManager it constructs
    environ,                  \* RSYNC_FROM in the environment of perform_sync
    pause_flag,               \* the file /logs/awaiting_ip.flag exists
    awaiting,                 \* the chats whose user_data['awaiting_remote_ip'] is set
    sync_runs,                \* the perform_sync calls started, each with its position
    cron_jobs,                \* the cron threads started by the bot and not yet run
    crontab,                  \* /app/crontab.txt and the table cron has installed
    updates,                  \* the bot updates handled
    last_update,              \* the last bot update and what was sent to its chat
    source_request,           \* the last source path the bot accepted for a change
    cron_req,                 \* the argument of the last change_cron_interval call
    cron_clock,               \* the minute of the hour
    cron_since,               \* the minutes since the schedule last fired (-1: not yet)
    cron_gap,                 \* the minutes between its last two firings (0: not yet)
    persisted,                \* the RSYNC_FROM a construction saved to the file, while no
                              \* set_rsync_from_path has begun since (<<>>: none), and
                              \* the perform_sync calls that have returned
    cron_text                 \* the lines of /app/crontab.txt and of the installed table,
                              \* and the last calls of _update_crontab_entry

\* What a construction that runs beside a save works on, besides the file.
fileVars == <<writer, ctor, environ, persisted>>

\* The bot's own state.
botVars == <<pause_flag, awaiting, sync_runs, cron_jobs, updates, last_update, source_request>>

\* The schedule and the clock it fires by.
cronVars == <<crontab, cron_req, cron_clock, cron_since, cron_gap, cron_text>>

serviceVars == <<validated, fileVars, botVars, cronVars>>

vars == <<managerVars, serviceVars>>

\* What set_rsync_from_path works on, besides self.rsync_from.
sourceVars == <<config_file, set_result, set_count>>

configVars ==
    <<max_retries, retry_delay_seconds, disk_space_threshold_gb, FOLDER_LIST_THRESHOLD,
      rsync_from>>

None == "None"

\* Values of self.rsync_from as __init__ leaves it (user@host:/path).
Sources == {<<"p","i","@","h",":","/","a">>, <<"p","i","@","h",":","/","b">>}

\* Arguments of set_rsync_from_path: the sources, the empty string, and paths
\* lacking '@', ':' or both.
NewPaths == Sources \cup {<<>>, <<"p","i">>, <<"p","i","@","h">>, <<"h",":","/","a">>}

Directions == {"from", "to", "pull"}

\* The empty string, as a text of lines.
NoText == << <<>> >>

\* A stream one character longer than the excerpt a report takes of it.
LongText == << [i \in 1..(ExcerptLimit + 1) |-> "x"] >>

\* stdout and stderr of a transfer that exits non-zero.
FailureStreams ==
    {[stdout |-> NoText, stderr |-> <<<<"r","s","y","n","c"," ","e","r","r","o","r">>>>],
     [stdout |-> <<LineSentFile, LineSentFile>>, stderr |-> NoText],
     [stdout |-> LongText, stderr |-> LongText]}

\* shutil.disk_usage(path): the free space measured, or an exception.
DiskUsageResults ==
    {[raised |-> TRUE, free |-> 0]}
      \cup {[raised |-> FALSE, free |-> f] : f \in 0..MaxFreeUnits}

\* What one subprocess.run call can give: a completed process with its exit
\* code and stdout, subprocess.TimeoutExpired, or another exception.
AttemptResults ==
    {[kind |-> "exit", returncode |-> 0, stdout |-> out, stderr |-> NoText] :
        out \in SampleOutputs}
      \cup {[kind |-> "exit", returncode |-> 23, stdout |-> f.stdout, stderr |-> f.stderr] :
              f \in FailureStreams}
      \cup {[kind |-> "timeout", returncode |-> None, stdout |-> NoText, stderr |-> NoText],
            [kind |-> "exception", returncode |-> None, stdout |-> NoText, stderr |-> NoText]}

\* No subprocess.run call made yet.
NoResult == [kind |-> "none", returncode |-> None, stdout |-> NoText, stderr |-> NoText]

\* ---------------------------------------------------------- the disk gate
\* Mutant: the comparison with the floor made inclusive.
FreeNotAboveThreshold(free, threshold_gb) == free <= threshold_gb * UnitsPerGB

\* _check_disk_space: free_gb < self.disk_space_threshold_gb
FreeBelowThreshold(free, threshold_gb) == free < threshold_gb * UnitsPerGB

\* storage_utils.has_enough_disk_space: free_gb >= min_free_gb
has_enough_disk_space(free, min_free_gb) == free >= min_free_gb * UnitsPerGB

Notification(kind, body) == [kind |-> kind, body |-> body]

\* _check_disk_space: its answer and the notifications it sends itself.
CheckDiskSpace(usage, threshold_gb) ==
    IF usage.raised
    THEN [ok |-> FALSE, sent |-> <<Notification("disk_check_error", [free |-> None])>>]
    ELSE IF FreeBelowThreshold(usage.free, threshold_gb)
    THEN [ok |-> FALSE,
          sent |-> <<Notification("low_disk_space_alert",
                                  [free |-> usage.free, threshold |-> threshold_gb])>>]
    ELSE [ok |-> TRUE, sent |-> <<>>]

\* ------------------------------------------------------------- run_rsync
\* Mutant: a second direction let through.
DirectionSupportedAlsoTo(d) == d \in {"from", "to"}

\* if direction == "from"
DirectionSupported(d) == d = "from"

\* Mutant: the gate's answer ignored.
GateNeverRefuses(gate) == FALSE

\* if not self._check_disk_space(dest, log_file): ... return
GateRefuses(gate) == ~gate.ok

\* range(1, self.max_retries + 1) is empty
LoopIsEmpty == max_retries < 1

\* self.retry_delay_seconds * (2 ** (attempt - 1))
CurrentRetryDelay(k) == retry_delay_seconds * (2 ^ (k - 1))

\* Mutant: the retry test off by one.
RetryFollowsInclusive(k) == k <= max_retries

\* if attempt < self.max_retries
RetryFollows(k) == k < max_retries

\* Mutant: any completed process taken for a success.
AttemptCompleted(result) == result.kind = "exit"

\* if result.returncode == 0
AttemptSucceeded(result) == result.kind = "exit" /\ result.returncode = 0

\* Python: s.replace(old, '')
RECURSIVE RemoveAll(_, _)
RemoveAll(s, old) ==
    IF s = <<>> THEN <<>>
    ELSE IF IsPrefixAt(old, s, 1) THEN RemoveAll(SubSeq(s, Len(old) + 1, Len(s)), old)
    ELSE <<Head(s)>> \o RemoveAll(Tail(s), old)

RootOfDestination == <<"r","o","o","t"," ","o","f"," ","d","e","s","t","i","n","a","t","i","o","n">>

\* The name a folder is listed under in the success report.
DisplayName(folder_name) ==
    LET replaced == RemoveAll(folder_name, DATA_DIR)
        stripped == IF StartsWith(replaced, <<"/">>) THEN Tail(replaced) ELSE replaced
    IN  IF stripped = <<>> THEN RootOfDestination ELSE stripped

\* any_changes
AnyChanges(stats) ==
    \/ stats.received_bytes > 0
    \/ stats.new_files > 0
    \/ stats.modified_files > 0
    \/ stats.deleted_files > 0
    \/ stats.new_folders > 0
    \/ stats.modified_folders > 0

\* The success report: title, source and the Affected Folders block.
SuccessReport(stats, source) ==
    LET total_affected_folders == stats.new_folders + stats.modified_folders
        listed == total_affected_folders > 0 /\ total_affected_folders <= FOLDER_LIST_THRESHOLD
        counted == total_affected_folders > FOLDER_LIST_THRESHOLD /\ total_affected_folders > 0
    IN  Notification("success",
          [src |-> source,
           any_changes |-> AnyChanges(stats),
           new_files |-> stats.new_files,
           new_listed |-> IF listed
                          THEN [i \in 1..Len(stats.new_folder_names) |->
                                  DisplayName(stats.new_folder_names[i])]
                          ELSE <<>>,
           updated_listed |-> IF listed
                              THEN [i \in 1..Len(stats.modified_folder_names) |->
                                      DisplayName(stats.modified_folder_names[i])]
                              ELSE <<>>,
           totals |-> IF counted
                      THEN <<stats.new_folders, stats.modified_folders>>
                      ELSE <<>>])

\* The text of a stream: its lines joined by newlines.
RECURSIVE JoinLines(_)
JoinLines(lines) ==
    IF Len(lines) = 1 THEN lines[1]
    ELSE lines[1] \o <<"\n">> \o JoinLines(Tail(lines))

NotAvailable == <<"N","/","A">>

\* Mutant: the whole stream quoted.
ExcerptWhole(stream) ==
    IF JoinLines(stream) = <<>> THEN NotAvailable ELSE JoinLines(stream)

\* result.stdout[:500] if result.stdout else 'N/A'
Excerpt(stream) ==
    LET text == JoinLines(stream)
    IN  IF text = <<>> THEN NotAvailable
        ELSE SubSeq(text, 1, IF Len(text) < ExcerptLimit THEN Len(text) ELSE ExcerptLimit)

\* Mutant: a timeout reported by the handler of the other exceptions.
FailureReportTimeoutAsException(result, raised, source) ==
    IF result.kind \in {"timeout", "exception"} \/ raised
    THEN Notification("failed_exception", [src |-> source, returncode |-> None])
    ELSE Notification("failed_exit",
           [src |-> source, returncode |-> result.returncode,
            stdout |-> Excerpt(result.stdout), stderr |-> Excerpt(result.stderr)])

\* The report of the last attempt of an exhausted run, by the handler it ends in.
FailureReport(result, raised, source) ==
    IF result.kind = "timeout"
    THEN Notification("failed_timeout",
           [src |-> source, returncode |-> None, timeout |-> TransferTimeout])
    ELSE IF result.kind = "exception" \/ raised
    THEN Notification("failed_exception", [src |-> source, returncode |-> None])
    ELSE Notification("failed_exit",
           [src |-> source, returncode |-> result.returncode,
            stdout |-> Excerpt(result.stdout), stderr |-> Excerpt(result.stderr)])

\* Mutant: the source read again from self.rsync_from at each attempt.
AttemptSourceReread == rsync_from

\* The source on the command line given to subprocess.run.
AttemptSource == cmd[2]

\* Mutant: every failed attempt reported.
FailureNotificationsEveryAttempt(k, result, raised, source) ==
    <<FailureReport(result, raised, source)>>

\* What a failed attempt k sends: nothing while a retry follows, the failure
\* report after the last attempt.
FailureNotifications(k, result, raised, source) ==
    IF RetryFollows(k) THEN <<>> ELSE <<FailureReport(result, raised, source)>>

\* What a failed attempt k sleeps: the backoff while a retry follows.
FailureSleeps(k) ==
    IF RetryFollows(k) THEN <<CurrentRetryDelay(k)>> ELSE <<>>

\* run_rsync(direction), up to the first subprocess.run: the direction test,
\* the disk-space gate, the command line, the entry into the retry loop.
\* (src is self.rsync_from, which __init__ leaves non-empty or raises; dest is
\* the constant DATA_DIR: the two `is None` returns cannot be taken.)
RunRsyncStart ==
    /\ pc = "idle"
    /\ \E d \in Directions, usage \in DiskUsageResults :
         /\ direction' = d
         /\ IF ~DirectionSupported(d)
            THEN /\ notifications' =
                      Append(notifications, Notification("unsupported_direction", [direction |-> d]))
                 /\ pc' = "done"
                 /\ UNCHANGED <<src, disk, cmd, attempt>>
            ELSE LET gate == CheckDiskSpace(usage, disk_space_threshold_gb)
                 IN  /\ src' = rsync_from
                     /\ disk' = [checked |-> TRUE, raised |-> usage.raised,
                                 free |-> usage.free, ok |-> gate.ok]
                     /\ IF GateRefuses(gate)
                        THEN /\ notifications' =
                                  notifications \o gate.sent
                                    \o <<Notification("aborted_disk_space", [free |-> usage.free])>>
                             /\ pc' = "done"
                             /\ UNCHANGED <<cmd, attempt>>
                        ELSE /\ notifications' = notifications \o gate.sent
                             /\ cmd' = <<"rsync", rsync_from, DATA_DIR>>
                             /\ IF LoopIsEmpty
                                THEN pc' = "done" /\ UNCHANGED attempt
                                ELSE pc' = "attempting" /\ attempt' = 1
    /\ UNCHANGED <<max_retries, retry_delay_seconds, disk_space_threshold_gb,
                   FOLDER_LIST_THRESHOLD, rsync_from, attempts, sleeps, classified,
                   rsync_output, parsed_stats, basic_stats, last_result, sourceVars,
                   serviceVars>>

\* One pass of the retry loop: subprocess.run, then the success branch
\* (classification and the success report) or one of the three failure
\* branches (backoff sleep, or the failure report after the last attempt).
Attempt ==
    /\ pc = "attempting"
    /\ \E res \in AttemptResults :
         LET stats == ParseRsyncOutput(res.stdout)
             raised == AttemptSucceeded(res) /\ stats.raised
         IN  /\ attempts' = Append(attempts, [kind |-> res.kind, returncode |-> res.returncode,
                                               source |-> AttemptSource])
             /\ last_result' = res
             /\ IF AttemptSucceeded(res)
                THEN /\ classified' = classified \cup {attempt}
                     /\ rsync_output' = res.stdout
                     /\ parsed_stats' = stats
                ELSE UNCHANGED <<classified, rsync_output, parsed_stats>>
             /\ IF AttemptSucceeded(res) /\ ~raised
                THEN /\ notifications' = Append(notifications, SuccessReport(stats, src))
                     /\ pc' = "done"
                     /\ UNCHANGED sleeps
                ELSE /\ notifications' =
                          notifications \o FailureNotifications(attempt, res, raised, src)
                     /\ sleeps' = sleeps \o FailureSleeps(attempt)
                     /\ pc' = IF RetryFollows(attempt) THEN "sleeping" ELSE "done"
    /\ UNCHANGED <<max_retries, retry_delay_seconds, disk_space_threshold_gb,
                   FOLDER_LIST_THRESHOLD, rsync_from, direction, src, disk, cmd, attempt,
                   basic_stats, sourceVars,
                   serviceVars>>

\* time.sleep returns: the loop goes on to the next attempt.
BackoffElapsed ==
    /\ pc = "sleeping"
    /\ attempt' = attempt + 1
    /\ pc' = "attempting"
    /\ UNCHANGED <<max_retries, retry_delay_seconds, disk_space_threshold_gb,
                   FOLDER_LIST_THRESHOLD, rsync_from, direction, src, disk, cmd, attempts,
                   sleeps, notifications, classified, rsync_output, parsed_stats,
                   basic_stats, last_result, sourceVars,
                   serviceVars>>

NoStats == [raised |-> FALSE, none |-> TRUE]

\* set_rsync_from_path not called yet.
NoSetCall ==
    [called |-> FALSE, at |-> None, new_path |-> <<>>, returned |-> None, write |-> None,
     old_file |-> [exists |-> FALSE, content |-> <<>>], old_from |-> <<>>]

NoDisk == [checked |-> FALSE, raised |-> FALSE, free |-> 0, ok |-> FALSE]

\* The line of the sync script in a crontab: there or not, commented out or
\* not, and the N of its minute field */N.
DefaultEntry == [present |-> TRUE, commented |-> FALSE, step |-> DefaultInterval]

NoEntry == [present |-> FALSE, commented |-> FALSE, step |-> 0]

\* No construction has saved RSYNC_FROM, and no perform_sync has returned.
NothingPersisted == [value |-> <<>>, returned |-> 0]

\* No call of _update_crontab_entry yet.
NoCall == [action |-> None, minutes |-> 0, ok |-> FALSE, file |-> <<>>, installed |-> <<>>]

\* _get_current_sync_interval was not asked since the last call.
NoReport == [says |-> None, minutes |-> 0]

\* The text of the tables where the lines are not looked at.
NoCronText ==
    [file |-> <<>>, installed |-> <<>>, last |-> NoCall, prev |-> NoCall, calls |-> 0,
     report |-> NoReport]

\* No update handled yet.
NoUpdate ==
    [chat |-> None, handler |-> None, name |-> None, sent |-> {}]

\* No save in progress.
NoWriter == [pc |-> "idle", path |-> <<>>, old |-> <<>>]

\* perform_sync not called.
NoCtor == [pc |-> "none", readable |-> FALSE, observed |-> <<>>, rsync_from |-> <<>>,
           ran |-> FALSE]

\* No path checked yet.
NotValidated == [called |-> FALSE, path |-> <<>>, manager |-> FALSE, command |-> FALSE,
                 utility |-> FALSE]

\* The service before anything happened in it.
InitService ==
    /\ validated = NotValidated
    /\ writer = NoWriter
    /\ ctor = NoCtor
    /\ environ = <<>>
    /\ persisted = NothingPersisted
    /\ pause_flag = FALSE
    /\ awaiting = {}
    /\ sync_runs = <<>>
    /\ cron_jobs = {}
    /\ crontab = [file |-> DefaultEntry, installed |-> DefaultEntry]
    /\ updates = 0
    /\ last_update = NoUpdate
    /\ source_request = <<>>
    /\ cron_req = 0
    /\ cron_clock = 0
    /\ cron_since = -1
    /\ cron_gap = 0
    /\ cron_text = NoCronText

\* A SyncManager as __init__ leaves it, and no run started.
InitRun ==
    /\ pc = "idle"
    /\ direction = None
    /\ src = None
    /\ disk = NoDisk
    /\ cmd = None
    /\ attempt = 0
    /\ attempts = <<>>
    /\ sleeps = <<>>
    /\ notifications = <<>>
    /\ classified = {}
    /\ rsync_output = None
    /\ parsed_stats = NoStats
    /\ basic_stats = NoStats
    /\ last_result = NoResult
    /\ config_file = [exists |-> TRUE, content |-> rsync_from]
    /\ set_result = NoSetCall
    /\ set_count = 0
    /\ InitService

Init ==
    /\ max_retries \in 0..MaxRetries
    /\ retry_delay_seconds \in 1..MaxDelay
    /\ disk_space_threshold_gb \in 1..MaxThresholdGB
    /\ FOLDER_LIST_THRESHOLD \in {0, MaxFolderThreshold}
    /\ rsync_from \in Sources
    /\ InitRun

Next == RunRsyncStart \/ Attempt \/ BackoffElapsed

Spec == Init /\ [][Next]_vars

\* --------------------------------------------- set_rsync_from_path and a run
\* if not new_path or "@" not in new_path or ":" not in new_path
PathInvalid(new_path) ==
    \/ new_path = <<>>
    \/ \A i \in 1..Len(new_path) : new_path[i] # "@"
    \/ \A i \in 1..Len(new_path) : new_path[i] # ":"

\* How open(RSYNC_FROM_CONFIG_FILE, "w") and f.write(path) can end.
WriteOutcomes == {"ok", "open_fails", "write_fails"}

\* set_rsync_from_path(new_path), called on the SyncManager of the run (by a
\* bot command, at any moment of the run). An invalid path reaches
\* self.telegram_utils, an attribute SyncManager never sets: AttributeError.
\* A valid one goes to _save_rsync_from_path, which catches a failed write,
\* reports it and returns normally; set_rsync_from_path then returns True.
SetRsyncFromPath ==
    /\ pc \in {"idle", "attempting", "sleeping", "done"}
    /\ set_count < MaxSetCalls
    /\ set_count' = set_count + 1
    /\ \E new_path \in NewPaths, write \in WriteOutcomes :
         IF PathInvalid(new_path)
         THEN /\ set_result' = [called |-> TRUE, at |-> pc, new_path |-> new_path,
                                returned |-> "AttributeError", write |-> None,
                                old_file |-> config_file, old_from |-> rsync_from]
              /\ UNCHANGED <<rsync_from, config_file, notifications>>
         ELSE /\ set_result' = [called |-> TRUE, at |-> pc, new_path |-> new_path,
                                returned |-> "True", write |-> write,
                                old_file |-> config_file, old_from |-> rsync_from]
              /\ rsync_from' = IF write = "ok" THEN new_path ELSE rsync_from
              /\ config_file' =
                    IF write = "ok" THEN [exists |-> TRUE, content |-> new_path]
                    ELSE IF write = "write_fails" THEN [exists |-> TRUE, content |-> <<>>]
                    ELSE config_file
              /\ notifications' =
                    IF write = "ok" THEN notifications
                    ELSE Append(notifications, Notification("save_error", [path |-> new_path]))
    /\ UNCHANGED <<max_retries, retry_delay_seconds, disk_space_threshold_gb,
                   FOLDER_LIST_THRESHOLD, pc, direction, src, disk, cmd, attempt, attempts,
                   sleeps, classified, rsync_output, parsed_stats, basic_stats, last_result,
                   serviceVars>>

\* A SyncManager with RSYNC_MAX_RETRIES=2 and DISK_SPACE_THRESHOLD_GB=1, the
\* other settings at their defaults, and no run started.
InitSource ==
    /\ max_retries = 2
    /\ retry_delay_seconds = 5
    /\ disk_space_threshold_gb = 1
    /\ FOLDER_LIST_THRESHOLD = 5
    /\ rsync_from \in Sources
    /\ InitRun

NextSource == Next \/ SetRsyncFromPath

SpecSource == InitSource /\ [][NextSource]_vars

\* ------------------------------------------------ the classifier on its own
\* _parse_rsync_output applied to rsync_output.
Classify ==
    /\ pc = "classify"
    /\ parsed_stats' = ParseRsyncOutput(rsync_output)
    /\ pc' = "classified"
    /\ UNCHANGED <<configVars, direction, src, disk, cmd, attempt, attempts, sleeps,
                   notifications, classified, rsync_output, basic_stats, last_result, sourceVars,
                   serviceVars>>

\* sync_utils.parse_rsync_output applied to rsync_output.
ParseBasic ==
    /\ pc \in {"classify", "classified"}
    /\ basic_stats = NoStats
    /\ basic_stats' = parse_rsync_output(rsync_output)
    /\ UNCHANGED <<configVars, pc, direction, src, disk, cmd, attempt, attempts, sleeps,
                   notifications, classified, rsync_output, parsed_stats, last_result, sourceVars,
                   serviceVars>>

InitClassifier ==
    /\ max_retries = 3
    /\ retry_delay_seconds = 5
    /\ disk_space_threshold_gb = 10
    /\ FOLDER_LIST_THRESHOLD = 5
    /\ rsync_from \in Sources
    /\ pc = "classify"
    /\ direction = None
    /\ src = None
    /\ disk = NoDisk
    /\ cmd = None
    /\ attempt = 0
    /\ attempts = <<>>
    /\ sleeps = <<>>
    /\ notifications = <<>>
    /\ classified = {}
    /\ rsync_output \in ClassifierInputs
    /\ parsed_stats = NoStats
    /\ basic_stats = NoStats
    /\ last_result = NoResult
    /\ config_file = [exists |-> TRUE, content |-> rsync_from]
    /\ set_result = NoSetCall
    /\ set_count = 0
    /\ InitService

NextClassifier == Classify \/ ParseBasic

SpecClassifier == InitClassifier /\ [][NextClassifier]_vars

\* ------------------------------------------------------------------ claims
LastNotification == notifications[Len(notifications)]

\* The run ended in the success branch.
RunSucceeded ==
    pc = "done" /\ notifications # <<>> /\ LastNotification.kind = "success"

\* The run went through the retry loop and every attempt failed.
RunExhausted == pc = "done" /\ attempts # <<>> /\ ~RunSucceeded

ExitedZero(a) == a.kind = "exit" /\ a.returncode = 0

\* C1: every terminated run_rsync that ended as a success, as an abort
\* (unsupported direction, failed disk-space gate) or as a failure after the
\* retries has made exactly one send_telegram call.
C1_ExactlyOneNotification ==
    (pc = "done" /\ (~DirectionSupported(direction) \/ ~disk.ok \/ attempts # <<>>))
        => Len(notifications) = 1

\* C2: when every attempt fails, the run makes exactly max_retries attempts,
\* sleeps retry_delay_seconds * 2^(k-1) after failed attempt k < max_retries and
\* does not sleep after the last one; while the loop runs, attempt k has been
\* preceded by exactly the first k-1 of these sleeps.
C2_ExhaustedRunAttemptsAndBackoff ==
    /\ \A k \in 1..Len(sleeps) : sleeps[k] = retry_delay_seconds * (2 ^ (k - 1))
    /\ pc = "attempting" => Len(attempts) = attempt - 1 /\ Len(sleeps) = attempt - 1
    /\ pc = "sleeping" => Len(attempts) = attempt /\ Len(sleeps) = attempt
    /\ RunExhausted => Len(attempts) = max_retries /\ Len(sleeps) = max_retries - 1

C2_Witness ==
    /\ RunExhausted
    /\ max_retries = 3
    /\ \A k \in 1..3 : attempts[k].kind = "timeout"
    /\ sleeps = <<2, 4>>

\* C3: an attempt that ends with exit code 0 is the last attempt of its run,
\* the run is then done and reported as a success, and no sleep follows it.
C3_ExitZeroReturnsSuccess ==
    \A k \in 1..Len(attempts) :
        ExitedZero(attempts[k]) =>
            /\ k = Len(attempts)
            /\ RunSucceeded
            /\ Len(sleeps) = k - 1

\* C4: no send_telegram call is made while the retry loop is running; the one
\* call of a run that entered the loop is made by the attempt that decides the
\* outcome.
C4_NoNotificationBeforeOutcome ==
    /\ pc \in {"attempting", "sleeping"} => notifications = <<>>
    /\ (pc = "done" /\ attempts # <<>>) => Len(notifications) = 1

C4_Witness ==
    /\ pc = "sleeping"
    /\ Len(attempts) = 2
    /\ attempts[1].kind = "exit"
    /\ attempts[2].kind = "exception"
    /\ notifications = <<>>

\* C5: with the free space measured, the gate lets the run go exactly when
\* free >= floor (free == floor included) and refuses it exactly when
\* free < floor; has_enough_disk_space answers the same.
C5_GateRefusesExactlyBelowFloor ==
    (disk.checked /\ ~disk.raised) =>
        /\ disk.ok <=> disk.free >= disk_space_threshold_gb * UnitsPerGB
        /\ ~disk.ok <=> disk.free < disk_space_threshold_gb * UnitsPerGB
        /\ disk.ok <=> has_enough_disk_space(disk.free, disk_space_threshold_gb)
        /\ ~disk.ok => pc = "done"

C5_Witness ==
    /\ disk.checked
    /\ ~disk.raised
    /\ disk.free = disk_space_threshold_gb * UnitsPerGB
    /\ disk.ok
    /\ pc = "attempting"

\* C6: when the disk-space gate fails (too little space, or the query raised),
\* the run is over without a command line, a transfer attempt or a sleep.
C6_GateFailureNoTransfer ==
    (disk.checked /\ ~disk.ok) =>
        /\ pc = "done"
        /\ cmd = None
        /\ attempt = 0
        /\ attempts = <<>>
        /\ sleeps = <<>>

C6_Witness ==
    /\ disk.checked
    /\ disk.raised
    /\ ~disk.ok
    /\ pc = "done"
    /\ max_retries = 3

\* C7: a run started with a direction other than "from" is over at once: one
\* notification, of the unsupported direction, and no disk check, no command
\* line, no transfer attempt.
C7_UnsupportedDirectionAborts ==
    (direction # None /\ direction # "from") =>
        /\ pc = "done"
        /\ ~disk.checked
        /\ cmd = None
        /\ attempts = <<>>
        /\ sleeps = <<>>
        /\ Len(notifications) = 1
        /\ notifications[1].kind = "unsupported_direction"

C7_Witness ==
    /\ direction = "pull"
    /\ pc = "done"
    /\ Len(notifications) = 1

\* C8: only the stdout of an attempt that exited with code 0 is given to
\* _parse_rsync_output, and a summary exists only after such an attempt.
C8_SummaryOnlyFromExitZero ==
    /\ \A k \in classified : k \in 1..Len(attempts) /\ ExitedZero(attempts[k])
    /\ (pc # "classified" /\ parsed_stats # NoStats) => classified # {}

C8_Witness ==
    /\ classified = {2}
    /\ attempts[1].kind = "timeout"
    /\ ~parsed_stats.raised
    /\ parsed_stats.new_files = 3

\* The classifier's input holds the statistics line "Number of created files: 7".
HasCreated7 == \E i \in 1..Len(rsync_output) : rsync_output[i] = LineCreated7

\* C9: for an input that holds the line "Number of created files: 7",
\* new_files is 7 whatever itemized lines stand before or after it.
C9_CreatedStatisticOverrides ==
    (pc = "classified" /\ ~parsed_stats.raised /\ HasCreated7)
        => parsed_stats.new_files = 7

\* rsync's itemized form of a created directory: update type c, file type d.
IsCreatedDirectoryLine(line) == ItemMatch(line) /\ line[1] = "c" /\ line[2] = "d"

NamesOf(names) == {names[i] : i \in 1..Len(names)}

\* C10: every itemized line of a created directory puts its path into
\* new_folder_names, and new_folders counts it.
C10_CreatedDirectoryIsNamed ==
    (pc = "classified" /\ ~parsed_stats.raised) =>
        \A i \in 1..Len(rsync_output) :
            IsCreatedDirectoryLine(rsync_output[i]) =>
                /\ RStripSlash(PathJoinDataDir(ItemPath(rsync_output[i])))
                      \in NamesOf(parsed_stats.new_folder_names)
                /\ parsed_stats.new_folders >= 1

\* The lines the classifier goes through.
OutputLines == StripSplit(rsync_output)

\* The number of lines of the classified output that satisfy P.
CountLines(P(_)) == Cardinality({i \in 1..Len(OutputLines) : P(OutputLines[i])})

\* An itemized line of a file (file type not d) that was transferred or
\* created: update type <, > or c.
IsNewFileLine(line) ==
    ItemMatch(line) /\ line[2] # "d" /\ line[1] \in {"<", ">", "c"}

\* An itemized line of a file that was not transferred or created and whose
\* attribute field marks a time (t) or size (s) change.
IsModifiedFileLine(line) ==
    /\ ItemMatch(line)
    /\ line[2] # "d"
    /\ line[1] \notin {"<", ">", "c"}
    /\ \E i \in 3..9 : line[i] \in {"t", "s"}

\* C11: without a "Number of created files:" line, new_files is the number of
\* itemized file lines marked received or created.
C11_NewFilesCountsItemizedLines ==
    (pc = "classified" /\ ~parsed_stats.raised /\ ~HasCreated7)
        => parsed_stats.new_files = CountLines(IsNewFileLine)

\* C12: modified_files is the number of itemized file lines whose attribute
\* field marks a time or size change and that are not received or created.
C12_ModifiedFilesCountsItemizedLines ==
    (pc = "classified" /\ ~parsed_stats.raised)
        => parsed_stats.modified_files = CountLines(IsModifiedFileLine)

\* A line whose "Total bytes sent:" counter holds no digit.
IsUnparseableSentLine(line) ==
    /\ Contains(line, LblBytesSent)
    /\ SearchAfterLabel(line, LblBytesSent, NumChars) # <<>>
    /\ StripSeparators(SearchAfterLabel(line, LblBytesSent, NumChars)) = <<>>

\* C13: _parse_rsync_output returns a summary for every output and never
\* raises; a byte counter that cannot be parsed is left at 0.
C13_ClassificationIsTotal ==
    pc = "classified" =>
        /\ ~parsed_stats.raised
        /\ (Len(OutputLines) = 1 /\ IsUnparseableSentLine(OutputLines[1]))
              => parsed_stats.sent_bytes = 0

\* A line that holds the label.
HasLabel(label) == \E i \in 1..Len(OutputLines) : Contains(OutputLines[i], label)

\* The last line that holds the label: the one whose number stays.
LastLabelled(label) ==
    OutputLines[CHOOSE i \in 1..Len(OutputLines) :
                    /\ Contains(OutputLines[i], label)
                    /\ \A k \in (i + 1)..Len(OutputLines) : ~Contains(OutputLines[k], label)]

\* Python: the digits of a text, in order.
RECURSIVE DigitsOf(_)
DigitsOf(text) ==
    IF text = <<>> THEN <<>>
    ELSE IF Head(text) \in Digits THEN <<Head(text)>> \o DigitsOf(Tail(text))
    ELSE DigitsOf(Tail(text))

\* The integer formed by the digits of the number written after the label on
\* the last line that holds it.
LabelledInteger(label) ==
    DigitsToInt(DigitsOf(SearchAfterLabel(LastLabelled(label), label, NumChars)))

\* The output has a line with the label, and the last one writes a number.
WritesNumber(label) ==
    /\ HasLabel(label)
    /\ DigitsOf(SearchAfterLabel(LastLabelled(label), label, NumChars)) # <<>>

\* C14: a byte counter written with thousands separators parses to the integer
\* formed by its digits, in SyncManager._parse_rsync_output and in
\* sync_utils.parse_rsync_output.
C14_SeparatedCountersParse ==
    /\ (pc = "classified" /\ ~parsed_stats.raised) =>
          /\ WritesNumber(LblBytesSent) => parsed_stats.sent_bytes = LabelledInteger(LblBytesSent)
          /\ WritesNumber(LblTotalSize) => parsed_stats.total_size = LabelledInteger(LblTotalSize)
    /\ (basic_stats # NoStats /\ ~basic_stats.raised) =>
          /\ WritesNumber(LblBytesSent) => basic_stats.sent_bytes = LabelledInteger(LblBytesSent)
          /\ WritesNumber(LblTotalSize) => basic_stats.total_size = LabelledInteger(LblTotalSize)

\* The same for SyncManager._parse_rsync_output alone.
ManagerParsesSeparatedCounters ==
    (pc = "classified" /\ ~parsed_stats.raised) =>
        /\ WritesNumber(LblBytesSent) => parsed_stats.sent_bytes = LabelledInteger(LblBytesSent)
        /\ WritesNumber(LblTotalSize) => parsed_stats.total_size = LabelledInteger(LblTotalSize)

\* An itemized line of a directory that was created or changed.
IsAffectedDirectoryLine(line) ==
    ItemMatch(line) /\ line[1] \in {"c", ".", "<", ">"} /\ line[2] = "d"

\* The directories the transfer created or changed, by its itemized output.
AffectedDirectories ==
    {ItemPath(OutputLines[i]) :
        i \in {k \in 1..Len(OutputLines) : IsAffectedDirectoryLine(OutputLines[k])}}

LastExitedNonZero == last_result.kind = "exit" /\ last_result.returncode # 0

\* text is the beginning of the stream, or N/A for an empty stream.
IsExcerptOf(text, stream) ==
    IF JoinLines(stream) = <<>> THEN text = NotAvailable
    ELSE /\ Len(text) <= Len(JoinLines(stream))
         /\ text = SubSeq(JoinLines(stream), 1, Len(text))

\* C16: the report of a run whose retries are exhausted and whose last attempt
\* exited non-zero carries that exit code and an excerpt of at most
\* ExcerptLimit characters of its stdout and of its stderr.
C16_FailureReportExitCodeAndExcerpts ==
    (RunExhausted /\ LastExitedNonZero) =>
        /\ LastNotification.kind = "failed_exit"
        /\ LastNotification.body.returncode = last_result.returncode
        /\ Len(LastNotification.body.stdout) <= ExcerptLimit
        /\ Len(LastNotification.body.stderr) <= ExcerptLimit
        /\ IsExcerptOf(LastNotification.body.stdout, last_result.stdout)
        /\ IsExcerptOf(LastNotification.body.stderr, last_result.stderr)

\* A run of several attempts whose last one exited 23 with more than
\* ExcerptLimit characters of stdout, reported with exactly ExcerptLimit of them.
C16_Witness ==
    /\ RunExhausted
    /\ LastExitedNonZero
    /\ Len(attempts) >= 2
    /\ Len(JoinLines(last_result.stdout)) > ExcerptLimit
    /\ LastNotification.kind = "failed_exit"
    /\ Len(LastNotification.body.stdout) = ExcerptLimit

\* C17: the report of an exhausted run is the one of its last attempt: the
\* timeout report, with the timeout and no exit code, when that attempt timed
\* out; the exit-code report when it exited non-zero.
C17_ReportFollowsLastAttempt ==
    RunExhausted =>
        /\ last_result.kind = "timeout" =>
              /\ LastNotification.kind = "failed_timeout"
              /\ LastNotification.body.timeout = TransferTimeout
              /\ LastNotification.body.returncode = None
        /\ LastExitedNonZero =>
              /\ LastNotification.kind = "failed_exit"
              /\ LastNotification.body.returncode = last_result.returncode
        /\ LastNotification.kind = "failed_timeout" => last_result.kind = "timeout"
        /\ LastNotification.kind = "failed_exit" => LastExitedNonZero

\* A run whose first attempt exited non-zero and whose last attempt timed out,
\* reported as a timeout.
C17_Witness ==
    /\ RunExhausted
    /\ Len(attempts) >= 2
    /\ attempts[1].kind = "exit"
    /\ last_result.kind = "timeout"
    /\ LastNotification.kind = "failed_timeout"

\* The reports of runs among the notifications (a failed save of the source
\* path sends one of its own).
RunReports ==
    SelectSeq(notifications,
              LAMBDA n : n.kind \in {"success", "failed_exit", "failed_timeout", "failed_exception"})

\* C18: every attempt of a run is given the source that run_rsync read at its
\* start, and the report of the run shows it, whatever set_rsync_from_path
\* does to self.rsync_from in between.
C18_OneSourcePerRun ==
    /\ \A k \in 1..Len(attempts) : attempts[k].source = src
    /\ (pc \in {"attempting", "sleeping"} \/ attempts # <<>>) => cmd[2] = src
    /\ \A i \in 1..Len(RunReports) : RunReports[i].body.src = src

\* A run of two attempts or more, reported, during whose backoff
\* set_rsync_from_path replaced the source.
C18_Witness ==
    /\ pc = "done"
    /\ Len(attempts) >= 2
    /\ RunReports # <<>>
    /\ set_result.called
    /\ set_result.at = "sleeping"
    /\ set_result.write = "ok"
    /\ rsync_from # src

\* C19: a set_rsync_from_path call with an invalid path returns False and
\* leaves the file and self.rsync_from as they were.
C19_InvalidPathReturnsFalse ==
    (set_result.called /\ PathInvalid(set_result.new_path)) =>
        /\ set_result.returned = "False"
        /\ config_file = set_result.old_file
        /\ rsync_from = set_result.old_from

\* What C19 says of the file and of self.rsync_from alone.
InvalidPathChangesNothing ==
    (set_result.called /\ PathInvalid(set_result.new_path)) =>
        /\ config_file = set_result.old_file
        /\ rsync_from = set_result.old_from

\* C20: a set_rsync_from_path call that returns True has written new_path to
\* the file and to self.rsync_from; a call whose write failed returns False.
C20_TrueOnlyIfPathSet ==
    set_result.called =>
        /\ set_result.returned = "True" =>
              /\ config_file = [exists |-> TRUE, content |-> set_result.new_path]
              /\ rsync_from = set_result.new_path
        /\ set_result.write \in {"open_fails", "write_fails"} => set_result.returned = "False"

\* ------------------------------------------- the checks of a path's shape
\* The characters of the paths given to the checks.
PathAlphabet == {"u", "@", ":"}

\* Every path of up to MaxPathLen characters.
PathInputs == UNION {[1..n -> PathAlphabet] : n \in 0..MaxPathLen}

\* Python: c in s
HasChar(s, c) == \E i \in 1..Len(s) : s[i] = c

\* change_sync_directory_command: the argument goes on to the callback. (No
\* argument at all gets the usage text; then '@' and ':' must both occur.)
CommandAccepts(new_path) ==
    new_path # <<>> /\ ~(~HasChar(new_path, "@") \/ ~HasChar(new_path, ":"))

\* sync_utils.is_valid_rsync_path: bool(re.match(r"^.+@.+:.+", path))
is_valid_rsync_path(path) ==
    \E i \in 2..Len(path) :
        /\ path[i] = "@"
        /\ \E j \in (i + 2)..(Len(path) - 1) : path[j] = ":"

\* The three checks applied to one path.
ValidatePath ==
    /\ ~validated.called
    /\ \E path \in PathInputs :
         validated' = [called |-> TRUE, path |-> path, manager |-> ~PathInvalid(path),
                       command |-> CommandAccepts(path),
                       utility |-> is_valid_rsync_path(path)]
    /\ UNCHANGED <<managerVars, fileVars, botVars, cronVars>>

NextValidate == ValidatePath

SpecValidate == InitSource /\ [][NextValidate]_vars

\* user@host:path: a user of one character or more, '@', a host of one character
\* or more, ':', a path of one character or more.
HasShape(path) ==
    \E user_len \in 1..Len(path), host_len \in 1..Len(path) :
        /\ user_len + 1 + host_len + 1 < Len(path)
        /\ path[user_len + 1] = "@"
        /\ path[user_len + 1 + host_len + 1] = ":"

\* C21: set_rsync_from_path, the /change_source command and
\* is_valid_rsync_path each accept a path exactly when it has the shape
\* user@host:path.
C21_SameShapeEverywhere ==
    validated.called =>
        /\ validated.manager = HasShape(validated.path)
        /\ validated.command = HasShape(validated.path)
        /\ validated.utility = HasShape(validated.path)

\* What C21 says of is_valid_rsync_path alone.
UtilityAcceptsTheShape ==
    validated.called => validated.utility = HasShape(validated.path)

\* ------------------------------ the source-path file under a save and a load
\* The file as a SyncManager can find it: missing, empty, blank, holding a
\* source, or holding a source and a newline.
FileStates ==
    {[exists |-> FALSE, content |-> <<>>]}
      \cup {[exists |-> TRUE, content |-> c] :
              c \in Sources \cup {<<>>, <<" ">>} \cup {src_ \o <<"\n">> : src_ \in Sources}}

\* RSYNC_FROM in the environment: unset, or a source.
EnvironValues == Sources \cup {<<>>}

\* _save_rsync_from_path, first half: open(RSYNC_FROM_CONFIG_FILE, "w")
\* creates the file or truncates it.
SaveOpen ==
    /\ writer.pc = "idle"
    /\ \E path \in Sources :
         writer' = [pc |-> "opened", path |-> path, old |-> config_file.content]
    /\ config_file' = [exists |-> TRUE, content |-> <<>>]
    /\ persisted' = [persisted EXCEPT !.value = <<>>]
    /\ UNCHANGED <<max_retries, retry_delay_seconds, disk_space_threshold_gb,
                   FOLDER_LIST_THRESHOLD, rsync_from, pc, direction, src, disk, cmd,
                   attempt, attempts, sleeps, notifications, classified, rsync_output,
                   parsed_stats, basic_stats, last_result, set_result, set_count,
                   validated, ctor, environ, botVars, cronVars>>

\* _save_rsync_from_path, second half: f.write(path), the file is closed,
\* self.rsync_from = path; set_rsync_from_path returns True.
SaveWrite ==
    /\ writer.pc = "opened"
    /\ config_file' = [exists |-> TRUE, content |-> writer.path]
    /\ rsync_from' = writer.path
    /\ writer' = [writer EXCEPT !.pc = "returned"]
    /\ UNCHANGED <<max_retries, retry_delay_seconds, disk_space_threshold_gb,
                   FOLDER_LIST_THRESHOLD, pc, direction, src, disk, cmd,
                   attempt, attempts, sleeps, notifications, classified, rsync_output,
                   parsed_stats, basic_stats, last_result, set_result, set_count,
                   validated, ctor, environ, persisted, botVars, cronVars>>

\* open(RSYNC_FROM_CONFIG_FILE, "r") and f.read() succeed.
file_readable(file, readable) == file.exists /\ readable

\* What _load_rsync_from_path leaves in self.rsync_from: the stripped content
\* of the file, nothing (None) when the file is missing or cannot be read.
LoadedFrom(file, readable) ==
    IF file.exists /\ readable THEN Strip(file.content) ELSE <<>>

\* perform_sync, SyncManager.__init__ up to _load_rsync_from_path.
CtorLoad ==
    /\ ctor.pc = "none"
    /\ \E readable \in BOOLEAN :
         ctor' = [ctor EXCEPT !.pc = "loaded",
                              !.readable = file_readable(config_file, readable),
                              !.observed = IF file_readable(config_file, readable)
                                           THEN config_file.content ELSE <<>>,
                              !.rsync_from = LoadedFrom(config_file, readable)]
    /\ UNCHANGED <<managerVars, validated, writer, environ, persisted, botVars, cronVars>>

\* Mutant: a construction that goes on without a source.
CtorNeverFails(loaded, env) == FALSE

\* if not self.rsync_from: ... if not self.rsync_from: raise ValueError
CtorFails(loaded, env) == loaded = <<>> /\ env = <<>>

\* Mutant: RSYNC_FROM goes before what was loaded.
ResolvedFromEnviron(loaded, env) == IF env # <<>> THEN env ELSE loaded

\* self.rsync_from after __init__: what was loaded, else RSYNC_FROM.
ResolvedSource(loaded, env) == IF loaded # <<>> THEN loaded ELSE env

\* perform_sync, the rest of SyncManager.__init__: the fallback to RSYNC_FROM,
\* which is saved to the file, or ValueError, which perform_sync catches and
\* reports.
CtorResolve ==
    /\ ctor.pc = "loaded"
    /\ IF CtorFails(ctor.rsync_from, environ)
       THEN /\ ctor' = [ctor EXCEPT !.pc = "failed"]
            /\ notifications' = notifications \o
                 <<Notification("source_not_defined", [path |-> <<>>]),
                   Notification("unexpected_error", [path |-> <<>>])>>
            /\ UNCHANGED <<config_file, persisted>>
       ELSE /\ ctor' = [ctor EXCEPT !.pc = "constructed",
                                    !.rsync_from = ResolvedSource(ctor.rsync_from, environ)]
            /\ config_file' = IF ctor.rsync_from = <<>>
                              THEN [exists |-> TRUE, content |-> environ]
                              ELSE config_file
            /\ persisted' = IF ctor.rsync_from = <<>> /\ writer.pc # "opened"
                            THEN [persisted EXCEPT !.value = environ] ELSE persisted
            /\ UNCHANGED notifications
    /\ UNCHANGED <<max_retries, retry_delay_seconds, disk_space_threshold_gb,
                   FOLDER_LIST_THRESHOLD, rsync_from, pc, direction, src, disk, cmd,
                   attempt, attempts, sleeps, classified, rsync_output,
                   parsed_stats, basic_stats, last_result, set_result, set_count,
                   validated, writer, environ, botVars, cronVars>>

\* perform_sync: sync_manager.run_rsync(direction), with the source constructed.
CtorRun ==
    /\ ctor.pc = "constructed"
    /\ ctor' = [ctor EXCEPT !.pc = "ran", !.ran = TRUE]
    /\ UNCHANGED <<managerVars, validated, writer, environ, persisted, botVars, cronVars>>

\* The bot's SyncManager, constructed, and the file and environment that a
\* perform_sync finds.
\* The service before anything is asked of it; the pause flag is a file and may
\* be left from an earlier session.
ServiceStarts(flags, texts) ==
    /\ max_retries = 3
    /\ retry_delay_seconds = 5
    /\ disk_space_threshold_gb = 10
    /\ FOLDER_LIST_THRESHOLD = 5
    /\ rsync_from \in Sources
    /\ pc = "service"
    /\ direction = None
    /\ src = None
    /\ disk = NoDisk
    /\ cmd = None
    /\ attempt = 0
    /\ attempts = <<>>
    /\ sleeps = <<>>
    /\ notifications = <<>>
    /\ classified = {}
    /\ rsync_output = None
    /\ parsed_stats = NoStats
    /\ basic_stats = NoStats
    /\ last_result = NoResult
    /\ config_file \in FileStates
    /\ set_result = NoSetCall
    /\ set_count = 0
    /\ validated = NotValidated
    /\ writer = NoWriter
    /\ ctor = NoCtor
    /\ environ \in EnvironValues
    /\ persisted = NothingPersisted
    /\ pause_flag \in flags
    /\ awaiting = {}
    /\ sync_runs = <<>>
    /\ cron_jobs = {}
    /\ crontab = [file |-> DefaultEntry, installed |-> DefaultEntry]
    /\ updates = 0
    /\ last_update = NoUpdate
    /\ source_request = <<>>
    /\ cron_req = 0
    /\ cron_clock = 0
    /\ cron_since = -1
    /\ cron_gap = 0
    /\ cron_text \in texts

InitFile == ServiceStarts({FALSE}, {NoCronText})

NextFile == SaveOpen \/ SaveWrite \/ CtorLoad \/ CtorResolve \/ CtorRun

SpecFile == InitFile /\ [][NextFile]_vars

\* C22: a construction that reads the file beside a save finds in it the whole
\* content from before the save or the whole new path.
C22_ReaderSeesOldOrNew ==
    (ctor.pc # "none" /\ ctor.readable /\ writer.pc # "idle") =>
        ctor.observed \in {writer.old, writer.path}

\* The content __init__ can use: the stripped text of a file that was read.
UsableContent == IF ctor.readable THEN Strip(ctor.observed) ELSE <<>>

C30_SetPathIsNotLost ==
    writer.pc = "returned" => config_file = [exists |-> TRUE, content |-> writer.path]

\* What the gate answers and sends when the free space is below the floor.
InsufficientSpace == CheckDiskSpace([raised |-> FALSE, free |-> 0], disk_space_threshold_gb)

\* C24: a disk query that raised is told apart from too little space: the
\* gate's alert, the answer its caller gets and the report of the aborted run
\* are not those of too little space.
C24_QueryFailureIsDistinct ==
    (pc = "done" /\ disk.checked /\ disk.raised) =>
        /\ notifications[1].kind # InsufficientSpace.sent[1].kind
        /\ disk.ok # InsufficientSpace.ok
        /\ LastNotification.kind # "aborted_disk_space"

\* What C24 says of the gate's own alert alone.
GateAlertIsDistinct ==
    (pc = "done" /\ disk.checked /\ disk.raised) =>
        notifications[1].kind # InsufficientSpace.sent[1].kind

\* C25: a run that got past the direction test and the disk-space gate has
\* made one transfer attempt or more and has ended with a success report or
\* with the failure report of its last attempt.
C25_AtLeastOneAttempt ==
    (pc = "done" /\ disk.checked /\ disk.ok) =>
        /\ max_retries >= 1
        /\ attempts # <<>>
        /\ notifications # <<>>
        /\ LastNotification.kind \in
              {"success", "failed_exit", "failed_timeout", "failed_exception"}

\* ------------------------------------------------------------ the schedule
\* The intervals of the bot's menu, in minutes.
MenuIntervals == {1, 15, 30, 60, 240, 1440}

\* The intervals change_cron_interval is called with: those of the menu and
\* the positive numbers given to /set_interval.
IntervalInputs == MenuIntervals \cup (1..MaxManualInterval)

\* _update_crontab_entry: the line of the sync script after the action.
\* 'disable' comments the line out, 'enable' removes the comment sign or, with
\* no line, appends one with the default interval, 'set_interval' writes
\* */N * * * * in place of the line or appends it.
update_crontab_entry(entry, action, current_interval) ==
    IF entry.present
    THEN IF action = "disable" THEN [entry EXCEPT !.commented = TRUE]
         ELSE IF action = "enable" THEN [entry EXCEPT !.commented = FALSE]
         ELSE [present |-> TRUE, commented |-> FALSE, step |-> current_interval]
    ELSE IF action = "disable" THEN entry
         ELSE [present |-> TRUE, commented |-> FALSE,
               step |-> IF action = "set_interval" THEN current_interval
                        ELSE DefaultInterval]

\* subprocess.run(["crontab", crontab_path], check=True): a step within the
\* minutes of an hour is accepted; what crontab does with a larger one depends
\* on the cron installed (lenient: it takes it, and */N then means minute 0).
CrontabAccepts(entry, lenient) ==
    ~entry.present \/ entry.commented \/ entry.step \in 1..59 \/ lenient

\* The table cron has after _update_crontab_entry wrote the file.
Installed(file, lenient) ==
    IF CrontabAccepts(file, lenient) THEN file ELSE crontab.installed

\* cron's reading of */N in the minute field: the minutes 0, N, 2N, ... of
\* every hour.
Fires(entry, minute) ==
    entry.present /\ ~entry.commented /\ entry.step > 0 /\ minute % entry.step = 0

\* change_cron_interval(minutes).
ChangeCronInterval ==
    /\ \E minutes \in IntervalInputs, lenient \in BOOLEAN :
         LET file == update_crontab_entry(crontab.file, "set_interval", minutes)
         IN  /\ crontab' = [file |-> file, installed |-> Installed(file, lenient)]
             /\ cron_req' = minutes
    /\ cron_since' = -1
    /\ cron_gap' = 0
    /\ UNCHANGED <<managerVars, validated, fileVars, botVars, cron_clock, cron_text>>

\* A minute goes by; cron runs the sync script when the minute matches.
CronTick ==
    /\ cron_clock' = (cron_clock + 1) % 60
    /\ IF Fires(crontab.installed, (cron_clock + 1) % 60)
       THEN /\ cron_gap' = IF cron_since >= 0 THEN cron_since + 1 ELSE cron_gap
            /\ cron_since' = 0
       ELSE /\ cron_since' = IF cron_since >= 0 THEN cron_since + 1 ELSE cron_since
            /\ UNCHANGED cron_gap
    /\ UNCHANGED <<managerVars, validated, fileVars, botVars, crontab, cron_req, cron_text>>

NextCron == ChangeCronInterval \/ CronTick

SpecCron == InitSource /\ [][NextCron]_vars

\* C29: after change_cron_interval(N) the installed entry has the minute field
\* */N with N within 0..59, and the schedule fires every N minutes.
C29_FiresEveryNMinutes ==
    cron_req # 0 =>
        /\ cron_req \in 0..59
        /\ crontab.installed = [present |-> TRUE, commented |-> FALSE, step |-> cron_req]
        /\ cron_gap # 0 => cron_gap = cron_req

\* What C29 says, for the intervals that divide the hour and are less than it.
DivisorsFireEveryNMinutes ==
    (cron_req \in {1, 2, 3, 4, 5, 6, 15, 30}) =>
        /\ crontab.installed = [present |-> TRUE, commented |-> FALSE, step |-> cron_req]
        /\ cron_gap # 0 => cron_gap = cron_req

\* ----------------------------------------------------------------- the bot
\* TELEGRAM_CHAT_ID, and the chats updates come from.
TELEGRAM_CHAT_ID == "1000"

Chats == {TELEGRAM_CHAT_ID, "2000"}

\* main.py starts the listener without change_sync_dir_func: the callback
\* keeps its default.
change_sync_directory_callback == None

\* constants.DEFAULT_RSYNC_FROM, with a short host and a short path.
DEFAULT_RSYNC_FROM == <<"p","i","@","h",":","/","a">>

\* The intervals the bot is asked for in the checks of the bot.
BotIntervals == {15, 240}

\* The arguments /change_source is given.
BotPaths == {<<>>, <<"p","i">>, <<"p","i","@","h",":","/","b">>}

\* The buttons pressed.
ButtonPresses ==
    {[name |-> n, minutes |-> 0] :
        n \in {"show_main_menu", "start_system", "sync_now", "enable_sync", "disable_sync",
               "show_tree", "default_directory"}}
      \cup {[name |-> "set_interval", minutes |-> m] : m \in BotIntervals}

\* Mutant: Sync Now is not among the buttons the pause blocks.
CriticalWithoutSyncNow == {"enable_sync", "disable_sync"}

\* botones_criticos
botones_criticos == {"sync_now", "enable_sync", "disable_sync"}

\* The texts sent while the bot waits for an address.
IpTexts == {<<"1","0",".","0",".","0",".","2">>, <<"1","0",".","0",".","2">>}

\* re.match(r"^(?:[0-9]{1,3}\.){3}[0-9]{1,3}$", ip): four groups of one to three
\* digits, with dots between them.
IsIpText(ip) ==
    LET dots == {i \in 1..Len(ip) : ip[i] = "."}
        ends == dots \cup {0, Len(ip) + 1}
    IN  /\ Cardinality(dots) = 3
        /\ \A i \in 1..Len(ip) : ip[i] \in Digits \cup {"."}
        /\ \A a \in ends \ {Len(ip) + 1} :
              LET b == CHOOSE e \in ends : e > a /\ \A o \in ends : o > a => e <= o
              IN  b - a - 1 \in 1..3

\* The text before the first c, and the text after it.
FirstIndexOf(text, c) == CHOOSE i \in 1..Len(text) : text[i] = c /\ \A k \in 1..(i - 1) : text[k] # c

Before(text, c) == SubSeq(text, 1, FirstIndexOf(text, c) - 1)

After(text, c) == SubSeq(text, FirstIndexOf(text, c) + 1, Len(text))

\* f"{username}@{ip}:{path}", username and path taken from DEFAULT_RSYNC_FROM
new_rsync_from(ip) ==
    Before(DEFAULT_RSYNC_FROM, "@") \o <<"@">> \o ip \o <<":">> \o After(DEFAULT_RSYNC_FROM, ":")

\* Mutant: the awaited address never blocks a button.
AwaitingNeverBlocks(chat) == FALSE

\* context.user_data.get('awaiting_remote_ip', False), of the user of the chat
awaiting_remote_ip(chat) == chat \in awaiting

\* An update handled, and what its chat was sent.
Handled(chat, handler, name, sent) ==
    /\ updates < MaxUpdates
    /\ updates' = updates + 1
    /\ last_update' = [chat |-> chat, handler |-> handler, name |-> name, sent |-> sent]

\* What the bot's handlers leave alone.
besideBot ==
    <<max_retries, retry_delay_seconds, disk_space_threshold_gb, FOLDER_LIST_THRESHOLD,
      rsync_from, pc, direction, src, disk, cmd, attempt, attempts, sleeps,
      notifications, classified, rsync_output, parsed_stats, basic_stats, last_result,
      set_result, set_count, validated, fileVars, cronVars>>

\* SyncManager() in one step: whether __init__ raised, and the file it left.
Constructed(file, env) ==
    LET loaded == LoadedFrom(file, TRUE)
    IN  [failed |-> CtorFails(loaded, env),
         rsync_from |-> ResolvedSource(loaded, env),
         file |-> IF loaded = <<>> /\ env # <<>>
                  THEN [exists |-> TRUE, content |-> env]
                  ELSE file]

\* show_tree_command: a SyncManager is constructed and the tree of the
\* destination is sent to the chat of the update; the exception of a failed
\* construction is sent instead.
TreeSent(file, env) == IF Constructed(file, env).failed THEN {"tree_error"} ELSE {"tree"}

\* Mutant: a sync thread started only when no other is in progress.
RunMayStartWhenIdle == \A i \in 1..Len(sync_runs) : sync_runs[i] = "done"

\* threading.Thread(target=sync_function_callback, args=("from",)).start():
\* nothing is asked of the runs in progress.
RunMayStart == TRUE

\* The perform_sync calls after a handler started one.
WithNewRun == IF RunMayStart THEN Append(sync_runs, "started") ELSE sync_runs

\* /start and /close: the chat is asked for an address and the pause flag is
\* created.
StartOrCloseCommand ==
    \E chat \in Chats, handler \in {"/start", "/close"} :
        IF chat # TELEGRAM_CHAT_ID
        THEN /\ Handled(chat, handler, None, {"unauthorized"})
             /\ UNCHANGED <<pause_flag, awaiting, sync_runs, cron_jobs, source_request, config_file, besideBot>>
        ELSE /\ Handled(chat, handler, None,
                        {IF handler = "/start" THEN "enter_ip" ELSE "closed"})
             /\ awaiting' = awaiting \cup {chat}
             /\ pause_flag' = TRUE
             /\ UNCHANGED <<sync_runs, cron_jobs, source_request, config_file, besideBot>>

\* /sync
StartSyncCommand ==
    /\ Len(sync_runs) < MaxRuns
    /\ \E chat \in Chats :
        IF chat # TELEGRAM_CHAT_ID
        THEN /\ Handled(chat, "/sync", None, {"unauthorized"})
             /\ UNCHANGED <<pause_flag, awaiting, sync_runs, cron_jobs, source_request, config_file, besideBot>>
        ELSE /\ Handled(chat, "/sync", None, {"sync_received"})
             /\ sync_runs' = WithNewRun
             /\ UNCHANGED <<pause_flag, awaiting, cron_jobs, source_request, config_file, besideBot>>

\* /set_interval [minutes], /enable_sync, /disable_sync: the menu of intervals,
\* a refusal, or a cron thread.
CronCommand ==
    \E chat \in Chats, handler \in {"/set_interval", "/enable_sync", "/disable_sync"},
       args \in {<<>>, <<0>>} \cup {<<m>> : m \in BotIntervals} :
        /\ handler # "/set_interval" => args = <<>>
        /\ IF chat # TELEGRAM_CHAT_ID
           THEN /\ Handled(chat, handler, None, {"unauthorized"})
                /\ UNCHANGED cron_jobs
           ELSE IF handler = "/set_interval" /\ args = <<>>
           THEN /\ Handled(chat, handler, None, {"interval_menu"})
                /\ UNCHANGED cron_jobs
           ELSE IF handler = "/set_interval" /\ args[1] <= 0
           THEN /\ Handled(chat, handler, None, {"must_be_positive"})
                /\ UNCHANGED cron_jobs
           ELSE IF handler = "/set_interval"
           THEN /\ Handled(chat, handler, None, {"changing_interval"})
                /\ cron_jobs' = cron_jobs \cup {[action |-> "set_interval", minutes |-> args[1]]}
           ELSE /\ Handled(chat, handler, None, {"changing_auto_sync"})
                /\ cron_jobs' = cron_jobs \cup
                     {[action |-> IF handler = "/enable_sync" THEN "enable" ELSE "disable",
                       minutes |-> 0]}
        /\ UNCHANGED <<pause_flag, awaiting, sync_runs, source_request, config_file, besideBot>>

\* /change_source [path]
ChangeSourceCommand ==
    \E chat \in Chats, new_path \in BotPaths :
        /\ IF chat # TELEGRAM_CHAT_ID
           THEN /\ Handled(chat, "/change_source", None, {"unauthorized"})
                /\ UNCHANGED source_request
           ELSE IF new_path = <<>>
           THEN /\ Handled(chat, "/change_source", None, {"usage"})
                /\ UNCHANGED source_request
           ELSE IF ~CommandAccepts(new_path)
           THEN /\ Handled(chat, "/change_source", None, {"invalid_format"})
                /\ UNCHANGED source_request
           ELSE /\ source_request' = new_path
                /\ IF change_sync_directory_callback # None
                   THEN Handled(chat, "/change_source", None, {"attempting"})
                   ELSE Handled(chat, "/change_source", None,
                                {"attempting", "not_configured"})
        /\ UNCHANGED <<pause_flag, awaiting, sync_runs, cron_jobs, config_file, besideBot>>

\* /tree: show_tree_command makes no test of the chat.
ShowTreeCommand ==
    \E chat \in Chats :
        /\ Handled(chat, "/tree", None, TreeSent(config_file, environ))
        /\ config_file' = Constructed(config_file, environ).file
        /\ UNCHANGED <<pause_flag, awaiting, sync_runs, cron_jobs, source_request, besideBot>>

\* button_callback: the tests of the awaited address and of the pause, the
\* buttons of the main menu and of Start System, and only then the test of the
\* chat and the other buttons.
ButtonCallback ==
    \E chat \in Chats, press \in ButtonPresses :
        /\ press.name = "sync_now" => Len(sync_runs) < MaxRuns
        /\ LET Sends(sent) == Handled(chat, "button", press.name, sent)
           IN  IF awaiting_remote_ip(chat)
               THEN /\ Sends({"enter_ip_first"})
                    /\ UNCHANGED <<pause_flag, sync_runs, cron_jobs, config_file>>
               ELSE IF pause_flag /\ press.name \in botones_criticos
               THEN Sends({"paused"}) /\ UNCHANGED <<pause_flag, sync_runs, cron_jobs, config_file>>
               ELSE IF press.name = "show_main_menu"
               THEN Sends({"menu"}) /\ UNCHANGED <<pause_flag, sync_runs, cron_jobs, config_file>>
               ELSE IF press.name = "start_system"
               THEN /\ Sends({"menu"})
                    /\ pause_flag' = FALSE
                    /\ UNCHANGED <<sync_runs, cron_jobs, config_file>>
               ELSE IF chat # TELEGRAM_CHAT_ID
               THEN /\ Sends({"unauthorized"})
                    /\ UNCHANGED <<pause_flag, sync_runs, cron_jobs, config_file>>
               ELSE IF press.name = "sync_now"
               THEN /\ Sends({"sync_now"})
                    /\ sync_runs' = WithNewRun
                    /\ UNCHANGED <<pause_flag, cron_jobs, config_file>>
               ELSE IF press.name \in {"enable_sync", "disable_sync"}
               THEN /\ Sends({"changing_auto_sync"})
                    /\ cron_jobs' = cron_jobs \cup
                         {[action |-> IF press.name = "enable_sync" THEN "enable" ELSE "disable",
                           minutes |-> 0]}
                    /\ UNCHANGED <<pause_flag, sync_runs, config_file>>
               ELSE IF press.name = "set_interval"
               THEN /\ Sends({"changing_interval"})
                    /\ cron_jobs' = cron_jobs \cup
                         {[action |-> "set_interval", minutes |-> press.minutes]}
                    /\ UNCHANGED <<pause_flag, sync_runs, config_file>>
               ELSE IF press.name = "show_tree"
               THEN /\ Sends(TreeSent(config_file, environ))
                    /\ config_file' = Constructed(config_file, environ).file
                    /\ UNCHANGED <<pause_flag, sync_runs, cron_jobs>>
               ELSE /\ Sends(IF change_sync_directory_callback # None
                             THEN {"changing_to_default"} ELSE {"not_configured"})
                    /\ UNCHANGED <<pause_flag, sync_runs, cron_jobs, config_file>>
        /\ UNCHANGED <<awaiting, source_request, besideBot>>

\* remote_ip_handler: a text that is no command, from a chat asked for an
\* address. The address is tried over SSH; when that works the source built
\* from it goes to the callback, if there is one, and the chat is told the
\* address is configured and is sent the main menu.
RemoteIpHandler ==
    \E chat \in Chats, text \in IpTexts, ssh_ok \in BOOLEAN :
        /\ IF chat \notin awaiting
           THEN /\ Handled(chat, "text", None, {})
                /\ UNCHANGED <<awaiting, source_request>>
           ELSE IF ~IsIpText(Strip(text))
           THEN /\ Handled(chat, "text", None, {"invalid_ip"})
                /\ UNCHANGED <<awaiting, source_request>>
           ELSE IF ~ssh_ok
           THEN /\ Handled(chat, "text", None, {"ssh_failed"})
                /\ awaiting' = awaiting \ {chat}
                /\ UNCHANGED source_request
           ELSE /\ Handled(chat, "text", None, {"ip_configured", "menu"})
                /\ awaiting' = awaiting \ {chat}
                /\ source_request' = new_rsync_from(Strip(text))
        /\ UNCHANGED <<pause_flag, sync_runs, cron_jobs, config_file, besideBot>>

\* A cron thread runs: enable_auto_sync, disable_auto_sync or
\* change_cron_interval(minutes).
RunCronJob ==
    \E job \in cron_jobs, lenient \in BOOLEAN :
        LET file == update_crontab_entry(crontab.file, job.action, job.minutes)
        IN  /\ cron_jobs' = cron_jobs \ {job}
            /\ crontab' = [file |-> file, installed |-> Installed(file, lenient)]
            /\ cron_req' = IF job.action = "set_interval" THEN job.minutes ELSE cron_req
            /\ UNCHANGED <<managerVars, validated, fileVars, pause_flag, awaiting, sync_runs,
                           updates, last_update, source_request, cron_clock, cron_since,
                           cron_gap, cron_text>>

\* cron runs the sync script: main.py from, that is perform_sync("from").
ScheduledSync ==
    /\ Len(sync_runs) < MaxRuns
    /\ crontab.installed.present /\ ~crontab.installed.commented
    /\ sync_runs' = Append(sync_runs, "started")
    /\ UNCHANGED <<pause_flag, awaiting, cron_jobs, updates, last_update, source_request,
                   config_file, besideBot>>

\* A perform_sync call goes on. Its SyncManager is constructed; when that
\* raised, or a check of run_rsync failed, the call ends, else run_rsync
\* reaches subprocess.run. A call at subprocess.run ends when rsync does.
SyncGoesOn ==
    \E i \in 1..Len(sync_runs), checks_pass \in BOOLEAN :
        /\ sync_runs[i] # "done"
        /\ IF sync_runs[i] = "started"
           THEN LET made == Constructed(config_file, environ)
                IN  /\ config_file' = made.file
                    /\ sync_runs' = [sync_runs EXCEPT
                                        ![i] = IF made.failed \/ ~checks_pass
                                               THEN "done" ELSE "attempting"]
           ELSE /\ checks_pass
                /\ sync_runs' = [sync_runs EXCEPT ![i] = "done"]
                /\ UNCHANGED config_file
        /\ UNCHANGED <<pause_flag, awaiting, cron_jobs, updates, last_update, source_request,
                       besideBot>>

NextBot ==
    \/ StartOrCloseCommand
    \/ StartSyncCommand
    \/ CronCommand
    \/ ChangeSourceCommand
    \/ ShowTreeCommand
    \/ ButtonCallback
    \/ RemoteIpHandler
    \/ RunCronJob
    \/ ScheduledSync
    \/ SyncGoesOn

\* The files and the environment the bot is started on; it is started paused
\* on one of them.
BotFiles ==
    {[exists |-> FALSE, content |-> <<>>],
     [exists |-> TRUE, content |-> DEFAULT_RSYNC_FROM \o <<"\n">>]}

InitBot ==
    /\ ServiceStarts(BOOLEAN, {NoCronText})
    /\ max_retries = 3
    /\ rsync_from = DEFAULT_RSYNC_FROM
    /\ config_file \in BotFiles
    /\ environ \in {<<>>, DEFAULT_RSYNC_FROM}
    /\ pause_flag => config_file.exists /\ environ = <<>>

SpecBot == InitBot /\ [][NextBot]_vars

\* The threads the handlers start are run, and so are the calls in progress.
SpecBotLive == SpecBot /\ WF_vars(RunCronJob) /\ WF_vars(SyncGoesOn)

\* ------------------------------------------------------------ claims C26-C28
\* The perform_sync calls that are at subprocess.run.
Attempting == {i \in 1..Len(sync_runs) : sync_runs[i] = "attempting"}

\* A step that handles an update of the chat, by the handler.
UpdateFrom(chat, handler) ==
    /\ updates' = updates + 1
    /\ last_update'.chat = chat
    /\ last_update'.handler = handler

\* C26: runs are not mutually exclusive. A /sync of the authorized chat starts
\* a perform_sync call whatever the calls in progress are doing, so a state
\* with two calls both at their transfer attempt is reached.
C26_RunsAreNotExclusive ==
    [][UpdateFrom(TELEGRAM_CHAT_ID, "/sync") => sync_runs' = Append(sync_runs, "started")]_vars

\* Two calls are at their transfer attempt, the later one started by /sync.
C26_TwoAttemptsAtOnce ==
    /\ Cardinality(Attempting) >= 2
    /\ last_update.handler = "/sync"
    /\ last_update.sent = {"sync_received"}

\* The source the next construction resolves.
EffectiveSource == Constructed(config_file, environ).rsync_from

\* C27: only the authorized chat can use the bot. An update from another chat
\* starts no sync, leaves the schedule, the source path and the pause flag as
\* they are, and is sent neither the menu nor the directory tree.
C27_OnlyAuthorizedChatUsesBot ==
    [][(updates' = updates + 1 /\ last_update'.chat # TELEGRAM_CHAT_ID) =>
          /\ sync_runs' = sync_runs
          /\ cron_jobs' = cron_jobs /\ crontab' = crontab
          /\ EffectiveSource' = EffectiveSource
          /\ pause_flag' = pause_flag
          /\ last_update'.sent \cap {"menu", "tree"} = {}]_vars

\* The handlers that test the chat before anything else: the commands other
\* than /tree, and the buttons other than the main menu and Start System.
TestsTheChatFirst(update) ==
    \/ update.handler \in {"/start", "/close", "/sync", "/set_interval", "/enable_sync",
                           "/disable_sync", "/change_source"}
    \/ update.handler = "button" /\ update.name \notin {"show_main_menu", "start_system"}

\* What C27 says holds of those handlers: the chat is refused, or told that
\* the system is paused.
GuardedHandlersRefuse ==
    [][(/\ updates' = updates + 1
        /\ last_update'.chat # TELEGRAM_CHAT_ID
        /\ TestsTheChatFirst(last_update')) =>
          /\ UNCHANGED <<sync_runs, cron_jobs, crontab, config_file, pause_flag>>
          /\ last_update'.sent \in {{"unauthorized"}, {"paused"}}]_vars

\* The path the durable file holds.
StoredSource == IF config_file.exists THEN Strip(config_file.content) ELSE <<>>

\* C28: a source change the bot accepted from the authorized chat reaches the
\* durable file, so that the next run pulls from the new source.
C28_ChangeReachesTheFile == (source_request # <<>>) ~> (StoredSource = source_request)

\* As main.py starts the listener, the durable file never comes to hold an
\* accepted request.
AcceptedChangeIsNeverStored == source_request # <<>> => StoredSource # source_request

\* ------------------------------------------------------------ claims C31-C33
\* A step in which the chat pressed one of the buttons.
Pressed(names) ==
    /\ updates' = updates + 1
    /\ last_update'.handler = "button"
    /\ last_update'.name \in names

\* The step invokes no callback and leaves the schedule and the flag alone.
NothingIsInvoked == UNCHANGED <<sync_runs, cron_jobs, crontab, pause_flag>>

\* C31: while the pause flag exists, a press of sync_now, enable_sync or
\* disable_sync invokes no callback, changes neither the schedule nor the flag,
\* and shows only the notice of the paused system.
C31_PausedButtonsShowOnlyTheNotice ==
    [][(pause_flag /\ Pressed({"sync_now", "enable_sync", "disable_sync"})) =>
          /\ NothingIsInvoked
          /\ last_update'.sent = {"paused"}]_vars

\* C31 as amended: the notice shown is the one that asks for the address
\* first when the user of the chat is still asked for it.
C31_PausedButtonsShowANotice ==
    [][(pause_flag /\ Pressed({"sync_now", "enable_sync", "disable_sync"})) =>
          /\ NothingIsInvoked
          /\ last_update'.sent = IF last_update'.chat \in awaiting
                                 THEN {"enter_ip_first"} ELSE {"paused"}]_vars

\* The authorized chat pressed Sync Now on a paused system and was shown the
\* notice of the pause.
C31_Witness ==
    /\ pause_flag
    /\ last_update = [chat |-> TELEGRAM_CHAT_ID, handler |-> "button", name |-> "sync_now",
                      sent |-> {"paused"}]

\* C32: while the system is paused, no input of the authorized chat starts a
\* synchronization run.
C32_NoRunWhilePaused ==
    [][(pause_flag /\ updates' = updates + 1 /\ last_update'.chat = TELEGRAM_CHAT_ID) =>
          sync_runs' = sync_runs]_vars

\* What C32 says holds of the buttons.
NoRunByButtonWhilePaused == [][(pause_flag /\ Pressed({"sync_now"})) => sync_runs' = sync_runs]_vars

\* C33: the pause flag is removed only by the start_system button; the button
\* does nothing while the user of the chat is still asked for the address; and
\* an address that was validated leaves the system paused.
C33_OnlyStartSystemEndsThePause ==
    [][/\ (pause_flag /\ ~pause_flag') => Pressed({"start_system"})
       /\ (Pressed({"start_system"}) /\ last_update'.chat \in awaiting) =>
             /\ UNCHANGED <<pause_flag, awaiting, sync_runs, cron_jobs, crontab>>
             /\ last_update'.sent = {"enter_ip_first"}
       /\ (updates' = updates + 1 /\ "ip_configured" \in last_update'.sent) =>
             pause_flag' = pause_flag]_vars

\* The address was validated and the system is still paused.
C33_Witness ==
    /\ pause_flag
    /\ awaiting = {}
    /\ last_update.handler = "text"
    /\ "ip_configured" \in last_update.sent

\* ------------------------------------------------------- the lines of crontab
\* sync_script_path and log_path, shortened, and the marker of the sync line
\* ("from" shortened to "f").
sync_script_path == <<"r">>

log_path == <<"l">>

sync_line_marker == sync_script_path \o <<" ","f">>

\* Python: str(n) for n >= 0
RECURSIVE IntToDigits(_)
IntToDigits(n) ==
    LET last == CHOOSE c \in Digits : DigitValue(c) = n % 10
    IN  IF n < 10 THEN <<last>> ELSE Append(IntToDigits(n \div 10), last)

\* f"*/{interval} * * * * {sync_script_path} from >> {log_path} 2>&1"
SyncLine(interval) ==
    <<"*","/">> \o IntToDigits(interval) \o <<" ","*"," ","*"," ","*"," ","*"," ">> \o sync_script_path
      \o <<" ","f"," ",">",">"," ">> \o log_path \o <<" ","2",">","&","1">>

\* Mutant: 'disable' writes the comment sign before the line as it is.
DisabledLineAgain(line) == <<"#">> \o line

\* f"#{line}" if not line.startswith("#") else line
DisabledLine(line) == IF StartsWith(line, <<"#">>) THEN line ELSE <<"#">> \o line

\* line[1:] if line.startswith("#") else line
EnabledLine(line) == IF StartsWith(line, <<"#">>) THEN SubSeq(line, 2, Len(line)) ELSE line

\* Mutant: the later lines of the sync script are kept.
KeepsDuplicates(line, found_and_updated) == FALSE

\* elif sync_line_marker in line and found_and_updated: pass
IsDuplicate(line, found_and_updated) == Contains(line, sync_line_marker) /\ found_and_updated

\* The loop over existing_lines: new_crontab_content and found_and_updated
\* after the lines from the i-th on.
RECURSIVE UpdateLines(_, _, _, _, _, _)
UpdateLines(existing_lines, i, action, current_interval, content, found) ==
    IF i > Len(existing_lines) THEN [content |-> content, found |-> found]
    ELSE LET line == existing_lines[i]
         IN  IF Contains(line, sync_line_marker) /\ ~found
             THEN UpdateLines(existing_lines, i + 1, action, current_interval,
                      Append(content,
                             IF action = "disable" THEN DisabledLine(line)
                             ELSE IF action = "enable" THEN EnabledLine(line)
                             ELSE SyncLine(current_interval)),
                      TRUE)
             ELSE IF IsDuplicate(line, found)
             THEN UpdateLines(existing_lines, i + 1, action, current_interval, content, found)
             ELSE UpdateLines(existing_lines, i + 1, action, current_interval,
                      Append(content, line), found)

\* _update_crontab_entry up to the writing of the file: the lines are read and
\* stripped, the loop is run, and a line is appended when 'enable' or
\* 'set_interval' found none.
new_crontab_content(file, action, current_interval) ==
    LET existing_lines == [i \in 1..Len(file) |-> Strip(file[i])]
        looped == UpdateLines(existing_lines, 1, action, current_interval, <<>>, FALSE)
        interval_to_use == IF action = "set_interval" THEN current_interval ELSE DefaultInterval
    IN  IF ~looped.found /\ action \in {"enable", "set_interval"}
        THEN Append(looped.content, SyncLine(interval_to_use))
        ELSE looped.content

\* line.strip().split()[0] of a line that is not blank
FirstField(line) ==
    LET stripped == Strip(line)
        gaps == {i \in 1..Len(stripped) : stripped[i] \in Whitespace}
    IN  IF gaps = {} THEN stripped
        ELSE SubSeq(stripped, 1, (CHOOSE i \in gaps : \A j \in gaps : i <= j) - 1)

\* crontab(1) reads a line: a blank line or a comment passes; of a job the
\* minute field is looked at: *, a minute, or a step */N, which is within the
\* hour, or is taken all the same by a lenient cron.
LineAccepted(line, lenient) ==
    LET job == Strip(line)
        field == FirstField(line)
        step == SubSeq(field, 3, Len(field))
    IN  \/ job = <<>>
        \/ StartsWith(job, <<"#">>)
        \/ field = <<"*">>
        \/ field # <<>> /\ (\A i \in 1..Len(field) : field[i] \in Digits)
             /\ DigitsToInt(field) \in 0..59
        \/ /\ StartsWith(field, <<"*","/">>)
           /\ step # <<>> /\ \A i \in 1..Len(step) : step[i] \in Digits
           /\ (DigitsToInt(step) \in 1..59 \/ (lenient /\ DigitsToInt(step) > 0))

\* subprocess.run(["crontab", crontab_path], check=True)
TableAccepted(file, lenient) == \A i \in 1..Len(file) : LineAccepted(file[i], lenient)

\* Mutant: the interval is read from the first digit alone.
ReportedStepFirstDigit(minutes_part) == DigitsToInt(SubSeq(minutes_part, 3, 3))

\* int(minutes_part[2:])
ReportedStep(minutes_part) == DigitsToInt(SubSeq(minutes_part, 3, Len(minutes_part)))

\* What _get_current_sync_interval says of a line of the sync script.
ReportOfLine(line) ==
    LET minutes_part == FirstField(line)
        step == SubSeq(minutes_part, 3, Len(minutes_part))
    IN  IF StartsWith(Strip(line), <<"#">>) THEN [says |-> "Disabled", minutes |-> 0]
        ELSE IF StartsWith(minutes_part, <<"*","/">>)
        THEN IF step = <<>> \/ \E i \in 1..Len(step) : step[i] \notin Digits
             THEN [says |-> "Irregular interval", minutes |-> 0]
             ELSE [says |-> "Every N minutes", minutes |-> ReportedStep(minutes_part)]
        ELSE IF minutes_part = <<"*">> THEN [says |-> "Every minute", minutes |-> 0]
        ELSE IF \A i \in 1..Len(minutes_part) : minutes_part[i] \in Digits
        THEN [says |-> "At minute N of each hour", minutes |-> DigitsToInt(minutes_part)]
        ELSE [says |-> "Custom interval", minutes |-> 0]

\* _get_current_sync_interval, on what crontab -l prints.
get_current_sync_interval(installed) ==
    LET with_marker == {i \in 1..Len(installed) : Contains(installed[i], sync_line_marker)}
    IN  IF with_marker = {} THEN [says |-> "Not configured", minutes |-> 0]
        ELSE ReportOfLine(installed[CHOOSE i \in with_marker : \A j \in with_marker : i <= j])

\* The lines a crontab.txt is made of: the sync line, enabled, disabled and
\* indented; another job; a comment.
SampleCronLines ==
    {SyncLine(DefaultInterval),
     <<"#">> \o SyncLine(DefaultInterval),
     <<" ">> \o SyncLine(5),
     <<"0"," ","3"," ","*"," ","*"," ","*"," ","b">>,
     <<"#"," ","c">>}

\* The texts of crontab.txt the service is started on.
CrontabTexts == UNION {[1..n -> SampleCronLines] : n \in 0..MaxCronLines}

\* The calls of _update_crontab_entry: the action and current_interval.
CronCalls ==
    {[action |-> "disable", minutes |-> 0], [action |-> "enable", minutes |-> 0],
     [action |-> "set_interval", minutes |-> 15],
     [action |-> "set_interval", minutes |-> 60]}

\* What happens to a call: the file cannot be opened (an exception before it
\* is written), or it is written and crontab(1) reads it.
CallOutcomes == {"open_raises", "crontab_reads"}

\* _update_crontab_entry(action, current_interval): the file is written, then
\* crontab is run on it; True is returned when crontab took it.
UpdateCrontabEntry ==
    /\ cron_text.calls < MaxCronCalls
    /\ \E call \in CronCalls :
         LET content == new_crontab_content(cron_text.file, call.action, call.minutes)
         IN  \E outcome \in CallOutcomes, lenient \in BOOLEAN :
         LET written == IF outcome = "open_raises" THEN cron_text.file ELSE content
             ok == outcome = "crontab_reads" /\ TableAccepted(content, lenient)
         IN  cron_text' =
                 [file |-> written,
                  installed |-> IF ok THEN content ELSE cron_text.installed,
                  last |-> [action |-> call.action, minutes |-> call.minutes, ok |-> ok,
                            file |-> cron_text.file, installed |-> cron_text.installed],
                  prev |-> cron_text.last,
                  calls |-> cron_text.calls + 1,
                  report |-> NoReport]
    /\ UNCHANGED <<managerVars, validated, fileVars, botVars, crontab, cron_req, cron_clock,
                   cron_since, cron_gap>>

\* _get_current_sync_interval(): crontab -l answers with the installed table.
GetCurrentSyncInterval ==
    /\ cron_text.report = NoReport
    /\ cron_text' = [cron_text EXCEPT !.report = get_current_sync_interval(cron_text.installed)]
    /\ UNCHANGED <<managerVars, validated, fileVars, botVars, crontab, cron_req, cron_clock,
                   cron_since, cron_gap>>

\* The service on a crontab.txt that is installed.
InitCrontab ==
    /\ ServiceStarts({FALSE},
          {[NoCronText EXCEPT !.file = text, !.installed = text] : text \in CrontabTexts})
    /\ rsync_from = DEFAULT_RSYNC_FROM
    /\ config_file = [exists |-> FALSE, content |-> <<>>]
    /\ environ = <<>>

NextCrontab == UpdateCrontabEntry \/ GetCurrentSyncInterval

SpecCrontab == InitCrontab /\ [][NextCrontab]_vars

\* ------------------------------------------------------------ claims C34-C38
\* The last call of _update_crontab_entry, and whether it returned True.
LastCall == cron_text.last

Succeeded(call) == call.action # None /\ call.ok

\* The places of the lines of a text that hold the marker.
MarkerLines(text) == {i \in 1..Len(text) : Contains(text[i], sync_line_marker)}

\* The lines of a text that do not hold the marker, in their order, without
\* the white space around them.
OtherLines(text) ==
    LET others == SelectSeq(text, LAMBDA line : ~Contains(line, sync_line_marker))
    IN  [i \in 1..Len(others) |-> Strip(others[i])]

\* The sync line of a text: its first line with the marker.
HasSyncLine(text) == MarkerLines(text) # {}

TheSyncLine(text) == Strip(text[CHOOSE i \in MarkerLines(text) : \A j \in MarkerLines(text) : i <= j])

SyncLineEnabled(text) == HasSyncLine(text) /\ ~StartsWith(TheSyncLine(text), <<"#">>)

\* C34: after a successful _update_crontab_entry, whatever the text before, at
\* most one line holds the marker of the sync script, and the lines without
\* the marker are all kept, in their order.
C34_OneSyncLineOthersKept ==
    Succeeded(LastCall) =>
        /\ Cardinality(MarkerLines(cron_text.file)) <= 1
        /\ OtherLines(cron_text.file) = OtherLines(LastCall.file)
        /\ cron_text.installed = cron_text.file

\* A successful call on a text with two sync lines and one on a text with two
\* other lines are both behind: here the former.
C34_Witness ==
    /\ Succeeded(LastCall)
    /\ Cardinality(MarkerLines(LastCall.file)) = 2
    /\ Cardinality(MarkerLines(cron_text.file)) = 1

\* C35: on a crontab whose sync line is enabled, disable and then enable give
\* the sync line back as it was, and disable twice, or enable twice, gives what
\* disable once, or enable once, gives.
C35_DisableEnableRoundTrip ==
    (Succeeded(cron_text.prev) /\ Succeeded(LastCall) /\ SyncLineEnabled(cron_text.prev.file)) =>
        /\ (cron_text.prev.action = "disable" /\ LastCall.action = "enable") =>
              /\ TheSyncLine(cron_text.file) = TheSyncLine(cron_text.prev.file)
              /\ SyncLineEnabled(cron_text.installed)
        /\ (cron_text.prev.action = LastCall.action /\ LastCall.action \in {"disable", "enable"}) =>
              cron_text.file = LastCall.file

\* disable and then enable, both successful, on an enabled sync line.
C35_Witness ==
    /\ Succeeded(cron_text.prev) /\ cron_text.prev.action = "disable"
    /\ Succeeded(LastCall) /\ LastCall.action = "enable"
    /\ SyncLineEnabled(cron_text.prev.file)
    /\ ~SyncLineEnabled(LastCall.file)

\* C36: a change of the interval leaves auto sync disabled when it was
\* disabled: the sync line stays commented out.
C36_IntervalChangeKeepsDisabled ==
    (Succeeded(LastCall) /\ LastCall.action = "set_interval"
       /\ HasSyncLine(LastCall.file) /\ ~SyncLineEnabled(LastCall.file)) =>
        ~SyncLineEnabled(cron_text.file) /\ ~SyncLineEnabled(cron_text.installed)

\* What C36 says of disable: it never enables.
DisableNeverEnables ==
    (Succeeded(LastCall) /\ LastCall.action = "disable") => ~SyncLineEnabled(cron_text.installed)

\* C37: after a successful change_cron_interval(N) _get_current_sync_interval
\* says "Every N minutes", and after a successful disable_auto_sync on a sync
\* line that exists it says "Disabled".
C37_ReportReadsBackTheCall ==
    (Succeeded(LastCall) /\ cron_text.report # NoReport) =>
        /\ LastCall.action = "set_interval" =>
              cron_text.report = [says |-> "Every N minutes", minutes |-> LastCall.minutes]
        /\ (LastCall.action = "disable" /\ HasSyncLine(LastCall.file)) =>
              cron_text.report.says = "Disabled"

\* The interval was set to 15 minutes and is read back.
C37_Witness ==
    /\ Succeeded(LastCall) /\ LastCall.action = "set_interval"
    /\ cron_text.report = [says |-> "Every N minutes", minutes |-> 15]

\* C38: a call of _update_crontab_entry that fails leaves crontab.txt and the
\* installed table as they were.
C38_FailureChangesNothing ==
    (LastCall.action # None /\ ~LastCall.ok) =>
        /\ cron_text.file = LastCall.file
        /\ cron_text.installed = LastCall.installed

\* What C38 says holds of the installed table.
FailureKeepsInstalledTable ==
    (LastCall.action # None /\ ~LastCall.ok) => cron_text.installed = LastCall.installed

\* ------------------------------------------------- constructions in sequence
\* perform_sync returns: the next call constructs its own SyncManager.
PerformSyncReturns ==
    /\ ctor.pc \in {"ran", "failed"}
    /\ persisted.returned < MaxSyncCalls
    /\ ctor' = NoCtor
    /\ persisted' = [persisted EXCEPT !.returned = persisted.returned + 1]
    /\ UNCHANGED <<managerVars, validated, writer, environ, botVars, cronVars>>

\* The service is started again with another RSYNC_FROM, between two calls.
EnvironChanges ==
    /\ ctor.pc = "none"
    /\ writer.pc # "opened"
    /\ \E value \in EnvironValues \ {environ} : environ' = value
    /\ UNCHANGED <<managerVars, validated, writer, ctor, persisted, botVars, cronVars>>

NextPersist == NextFile \/ PerformSyncReturns \/ EnvironChanges

SpecPersist == InitFile /\ [][NextPersist]_vars

====
